---- MODULE Spec2Model ----
(***************************************************************************)
(* A model of metrics-toolbox: the EvaluatorBuilder, the MetricEvaluator,  *)
(* the MetricSpec with its history, the reducers and a few metric          *)
(* variants.  Python objects are modelled by value where the code never    *)
(* shares them and by reference (an index into `lists`) where it does:     *)
(* MetricEvaluator.__init__ keeps the very list it is given.               *)
(*                                                                         *)
(* Metric values are exact rationals <<numerator, denominator>>; the pair  *)
(* <<0, 0>> stands for the float NaN.  Array cells are integers (the       *)
(* floats of the model are whole numbers such as 0.0, 1.0, 2.0), the dtype *)
(* is carried next to the data.                                            *)
(***************************************************************************)
EXTENDS Integers, Sequences, FiniteSets, TLC

VARIABLES lists, evaluators, call

vars == <<lists, evaluators, call>>

(***************************************************************************)
(* Bounds of the model.                                                    *)
(***************************************************************************)
MaxSpecs == 2
MaxEvals == 1
MaxHist == 2

(***************************************************************************)
(* Rational arithmetic for metric values.                                  *)
(***************************************************************************)
NaN == <<0, 0>>

Abs(n) == IF n < 0 THEN -n ELSE n

RECURSIVE Gcd(_, _)
Gcd(a, b) == IF b = 0 THEN a ELSE Gcd(b, a % b)

Rat(n, d) ==
    IF d = 0 THEN NaN
    ELSE LET g == Gcd(Abs(n), Abs(d))
             s == IF d < 0 THEN -1 ELSE 1
         IN  <<(s * n) \div g, (s * d) \div g>>

IsNaN(r) == r[2] = 0

RAdd(a, b) == IF IsNaN(a) \/ IsNaN(b) THEN NaN ELSE Rat(a[1] * b[2] + b[1] * a[2], a[2] * b[2])

RSub(a, b) == IF IsNaN(a) \/ IsNaN(b) THEN NaN ELSE Rat(a[1] * b[2] - b[1] * a[2], a[2] * b[2])

RDivInt(a, n) == IF IsNaN(a) THEN NaN ELSE Rat(a[1], a[2] * n)

RLess(a, b) == a[1] * b[2] < b[1] * a[2]

RECURSIVE RSum(_)
RSum(s) == IF s = <<>> THEN Rat(0, 1) ELSE RAdd(s[1], RSum(Tail(s)))

(***************************************************************************)
(* IEEE 754 double arithmetic, as far as np.linspace needs it.  The 53     *)
(* digit significand of a positive double is kept in three limbs of 17, 18 *)
(* and 18 binary digits, `frac` of the 53 digits standing after the binary *)
(* point.  Quotient and product round their exact result to 53 digits,     *)
(* half to even, as the hardware does.                                     *)
(***************************************************************************)
RECURSIVE Pow2(_)
Pow2(n) == IF n = 0 THEN 1 ELSE 2 * Pow2(n - 1)

Limb == Pow2(18)

\* the number of binary digits of n
RECURSIVE BitLength(_)
BitLength(n) == IF n = 0 THEN 0 ELSE 1 + BitLength(n \div 2)

\* delta / div for integers delta >= div > 0, below 2^11
DoubleQuotient(delta, div) ==
    LET whole == delta \div div
        frac == 53 - BitLength(whole)
        first == Pow2(frac - 36)
        r0 == delta % div
        d1 == (r0 * first) \div div
        r1 == (r0 * first) % div
        d2 == (r1 * Limb) \div div
        r2 == (r1 * Limb) % div
        d3 == (r2 * Limb) \div div
        r3 == (r2 * Limb) % div
        up == 2 * r3 > div \/ (2 * r3 = div /\ d3 % 2 = 1)
        l3 == IF up THEN d3 + 1 ELSE d3
        l2 == d2 + l3 \div Limb
        l1 == whole * first + d1 + l2 \div Limb
    IN  [l1 |-> l1, l2 |-> l2 % Limb, l3 |-> l3 % Limb, frac |-> frac]

\* np.floor(k * x) for an integer 0 < k < 2^10: the exact product, rounded to 53
\* digits, then floored
FloorOfTimes(x, k) ==
    LET p3 == k * x.l3
        p2 == k * x.l2 + p3 \div Limb
        p1 == k * x.l1 + p2 \div Limb
        q3 == p3 % Limb
        q2 == p2 % Limb
        dropped == IF BitLength(p1) > 17 THEN BitLength(p1) - 17 ELSE 0
        rest == q3 % Pow2(dropped)
        up == /\ dropped > 0
              /\ \/ 2 * rest > Pow2(dropped)
                 \/ 2 * rest = Pow2(dropped) /\ (q3 \div Pow2(dropped)) % 2 = 1
        shift == x.frac - 36
        ones == /\ q3 \div Pow2(dropped) = Pow2(18 - dropped) - 1
                /\ q2 = Limb - 1
                /\ p1 % Pow2(shift) = Pow2(shift) - 1
    IN  p1 \div Pow2(shift) + (IF up /\ ones THEN 1 ELSE 0)

\* np.linspace(0, stop, num, dtype=int) for stop >= num - 1: the samples k * step
\* with step = stop / (num - 1), the last one set to stop, floored; num = 1 gives
\* the start alone, a negative num raises
Linspace(stop, num) ==
    IF num < 0 THEN [err |-> "ValueError", indices |-> <<>>]
    ELSE [err |-> "none",
          indices |-> [k \in 1..num |->
                          IF k = 1 THEN 0
                          ELSE IF k = num THEN stop
                          ELSE FloorOfTimes(DoubleQuotient(stop, num - 1), k - 1)]]

(***************************************************************************)
(* Column and target names.  A name is a Python int or str; `ty` keeps the *)
(* two types apart for ==, str() brings them together.                     *)
(***************************************************************************)
IntName(n) == [ty |-> "int", v |-> n]

StrName(s) == [ty |-> "str", v |-> s]

\* str(name)
Str(name) == IF name.ty = "int" THEN ToString(name.v) ELSE name.v

\* the target_name of a variant that takes none
NoTarget == [ty |-> "none", v |-> 0]

\* list.index(x): the first position holding x, 0 when x is absent (ValueError)
ListIndex(names, x) ==
    IF \E i \in DOMAIN names : names[i] = x
    THEN CHOOSE i \in DOMAIN names : names[i] = x /\ \A j \in 1..(i - 1) : names[j] # x
    ELSE 0

(***************************************************************************)
(* numpy arrays: ndim, dtype and the data, a sequence of rows; a 1-D array *)
(* is kept as rows of one cell each.                                       *)
(***************************************************************************)
Arr1(dtype, cells) == [ndim |-> 1, dtype |-> dtype, data |-> [r \in DOMAIN cells |-> <<cells[r]>>]]

Arr2(dtype, data) == [ndim |-> 2, dtype |-> dtype, data |-> data]

Shape(a) ==
    IF a.ndim = 1 THEN <<Len(a.data)>>
    ELSE <<Len(a.data), IF a.data = <<>> THEN 0 ELSE Len(a.data[1])>>

Column(a, c) == [r \in 1..Len(a.data) |-> a.data[r][c]]

RECURSIVE Flatten(_)
Flatten(rows) == IF rows = <<>> THEN <<>> ELSE rows[1] \o Flatten(Tail(rows))

\* ndarray.ravel()
Ravel(a) == Flatten(a.data)

(***************************************************************************)
(* Metrics: the enumerations, the variants' class attributes, their ids    *)
(* and their compute methods.  A metric is [cls, target_name].             *)
(***************************************************************************)
Metric(cls, target_name) == [cls |-> cls, target_name |-> target_name]

\* MSETarget.__init__ and, inherited, RMSETarget.__init__
DefaultSeriesLength == 1000

SeriesMetric(cls, target_name, metadata_series_length) ==
    [cls |-> cls, target_name |-> target_name, metadata_series_length |-> metadata_series_length]

MetricName(m) ==
    CASE m.cls \in {"PrecisionTarget", "PrecisionMicro", "PrecisionMacro"} -> "precision"
      [] m.cls = "Accuracy" -> "accuracy"
      [] m.cls \in {"RecallMicro", "RecallMacro"} -> "recall"
      [] m.cls \in {"F1ScoreTarget", "F1ScoreMicro", "F1ScoreMacro"} -> "f1_score"
      [] m.cls \in {"RocAucTarget", "RocAucMacro"} -> "roc_auc"
      [] m.cls \in {"MSEMacro", "MSETarget"} -> "mse"
      [] m.cls \in {"RMSEMacro", "RMSETarget"} -> "rmse"

MetricScope(m) ==
    CASE m.cls \in {"PrecisionTarget", "F1ScoreTarget", "RocAucTarget", "MSETarget",
                    "RMSETarget"} -> "target"
      [] m.cls \in {"PrecisionMicro", "RecallMicro", "F1ScoreMicro", "Accuracy"} -> "micro"
      [] m.cls \in {"PrecisionMacro", "RecallMacro", "F1ScoreMacro", "RocAucMacro", "MSEMacro",
                    "RMSEMacro"} -> "macro"

MetricType(m) ==
    CASE m.cls \in {"PrecisionTarget", "PrecisionMicro", "PrecisionMacro", "RecallMicro",
                    "RecallMacro", "F1ScoreTarget", "F1ScoreMicro", "F1ScoreMacro",
                    "Accuracy"} -> "labels"
      [] m.cls \in {"RocAucTarget", "RocAucMacro"} -> "probs"
      [] m.cls \in {"MSEMacro", "MSETarget", "RMSEMacro", "RMSETarget"} -> "scores"

\* an id that every class takes from Metric.id, without the overrides
MetricIdOfBase(m) == MetricName(m) \o "_" \o MetricScope(m)

\* Metric.id and its overrides; RMSETarget inherits the one of MSETarget
MetricId(m) ==
    CASE m.cls \in {"PrecisionTarget", "F1ScoreTarget", "RocAucTarget", "MSETarget",
                    "RMSETarget"} ->
             MetricName(m) \o "_" \o Str(m.target_name)
      [] m.cls = "Accuracy" -> MetricName(m)
      [] OTHER -> MetricName(m) \o "_" \o MetricScope(m)

MetricResult(m, value) ==
    [name |-> MetricName(m), scope |-> MetricScope(m), type |-> MetricType(m), value |-> value]

Raised(err) == [err |-> err, value |-> NaN]

Computed(value) == [err |-> "none", value |-> value]

\* sum((pred == 1) & (true == t)) over two equally long cell sequences
CountPredTrue(pred, true, t) ==
    Cardinality({i \in DOMAIN pred : pred[i] = 1 /\ true[i] = t})

PrecisionOf(pred, true) ==
    LET tp == CountPredTrue(pred, true, 1)
        fp == CountPredTrue(pred, true, 0)
    IN  IF tp + fp > 0 THEN Rat(tp, tp + fp) ELSE Rat(0, 1)

\* a compute that falls back to the first column when the target is not a column
PrecisionTargetComputeOrFirst(m, y_true, y_pred, column_names) ==
    LET target_index == ListIndex(column_names, m.target_name)
        index == IF target_index = 0 THEN 1 ELSE target_index
    IN  Computed(PrecisionOf(Column(y_pred, index), Column(y_true, index)))

PrecisionTargetCompute(m, y_true, y_pred, column_names) ==
    LET target_index == ListIndex(column_names, m.target_name)
    IN  IF target_index = 0 THEN Raised("ValueError")
        ELSE Computed(PrecisionOf(Column(y_pred, target_index), Column(y_true, target_index)))

PrecisionMicroCompute(m, y_true, y_pred, column_names) ==
    Computed(PrecisionOf(Ravel(y_pred), Ravel(y_true)))

\* the loop over range(len(column_names)): y_pred[:, i] raises IndexError past the
\* last column, value /= len(column_names) raises ZeroDivisionError for no name
PrecisionMacroCompute(m, y_true, y_pred, column_names) ==
    LET n == Len(column_names)
    IN  IF n > Shape(y_pred)[2] \/ n > Shape(y_true)[2] THEN Raised("IndexError")
        ELSE IF n = 0 THEN Raised("ZeroDivisionError")
        ELSE Computed(RDivInt(RSum([i \in 1..n |->
                                       PrecisionOf(Column(y_pred, i), Column(y_true, i))]), n))

\* tp / (tp + fn) if (tp + fn) > 0 else 0.0; fn is sum((pred == 0) & (true == 1))
RecallOf(pred, true) ==
    LET tp == CountPredTrue(pred, true, 1)
        fn == CountPredTrue(true, pred, 0)
    IN  IF tp + fn > 0 THEN Rat(tp, tp + fn) ELSE Rat(0, 1)

\* 2 * tp / (2 * tp + fn + fp) if (2 * tp + fn + fp) > 0 else 0.0
F1Of(pred, true) ==
    LET tp == CountPredTrue(pred, true, 1)
        fn == CountPredTrue(true, pred, 0)
        fp == CountPredTrue(pred, true, 0)
    IN  IF 2 * tp + fn + fp > 0 THEN Rat(2 * tp, 2 * tp + fn + fp) ELSE Rat(0, 1)

\* a recall that divides whatever the denominator is
RecallMicroComputeDividing(m, y_true, y_pred, column_names) ==
    Computed(Rat(CountPredTrue(Ravel(y_pred), Ravel(y_true), 1),
                 CountPredTrue(Ravel(y_pred), Ravel(y_true), 1)
                     + CountPredTrue(Ravel(y_true), Ravel(y_pred), 0)))

RecallMicroCompute(m, y_true, y_pred, column_names) ==
    Computed(RecallOf(Ravel(y_pred), Ravel(y_true)))

F1ScoreMicroCompute(m, y_true, y_pred, column_names) ==
    Computed(F1Of(Ravel(y_pred), Ravel(y_true)))

\* the loop of the macro variants over range(len(column_names)), Of the value of
\* one column; the errors are those of PrecisionMacroCompute
MacroLoop(Of(_, _), y_true, y_pred, column_names) ==
    LET n == Len(column_names)
    IN  IF n > Shape(y_pred)[2] \/ n > Shape(y_true)[2] THEN Raised("IndexError")
        ELSE IF n = 0 THEN Raised("ZeroDivisionError")
        ELSE Computed(RDivInt(RSum([i \in 1..n |-> Of(Column(y_pred, i), Column(y_true, i))]), n))

\* a macro F1 that leaves the columns without a positive cell out of the divisor
F1ScoreMacroComputeSkipping(m, y_true, y_pred, column_names) ==
    LET n == Len(column_names)
        counted == {i \in 1..n : \E r \in 1..Len(y_true.data) :
                                     y_true.data[r][i] = 1 \/ y_pred.data[r][i] = 1}
    IN  IF counted = {} THEN Computed(Rat(0, 1))
        ELSE Computed(RDivInt(RSum([i \in 1..n |-> F1Of(Column(y_pred, i), Column(y_true, i))]),
                              Cardinality(counted)))

RecallMacroCompute(m, y_true, y_pred, column_names) ==
    MacroLoop(RecallOf, y_true, y_pred, column_names)

F1ScoreMacroCompute(m, y_true, y_pred, column_names) ==
    MacroLoop(F1Of, y_true, y_pred, column_names)

\* sklearn roc_curve followed by auc (trapezoid rule) on one column: the share of
\* (positive, negative) pairs ranked correctly, a tie counting one half; NaN when
\* the column has no positive or no negative sample
RocAucOf(true, pred) ==
    LET pos == {i \in DOMAIN true : true[i] = 1}
        neg == {i \in DOMAIN true : true[i] # 1}
        won == Cardinality({p \in pos \X neg : pred[p[1]] > pred[p[2]]})
        tie == Cardinality({p \in pos \X neg : pred[p[1]] = pred[p[2]]})
    IN  Rat(2 * won + tie, 2 * Cardinality(pos) * Cardinality(neg))

RocAucTargetCompute(m, y_true, y_pred, column_names) ==
    LET class_index == ListIndex(column_names, m.target_name)
    IN  IF class_index = 0 THEN Raised("ValueError")
        ELSE Computed(RocAucOf(Column(y_true, class_index), Column(y_pred, class_index)))

SquaredErrors(true, pred) == [i \in DOMAIN true |-> Rat((true[i] - pred[i]) * (true[i] - pred[i]), 1)]

\* ndarray.mean() of a sequence of values
MeanOf(values) == RDivInt(RSum(values), Len(values))

\* an MSE over all elements of the first column only
MSEMacroComputeFirstColumn(m, y_true, y_pred, column_names) ==
    Computed(MeanOf(SquaredErrors(Column(y_true, 1), Column(y_pred, 1))))

MSEMacroCompute(m, y_true, y_pred, column_names) ==
    LET n_columns == Shape(y_true)[2]
        mse_array == [c \in 1..n_columns |-> MeanOf(SquaredErrors(Column(y_true, c), Column(y_pred, c)))]
    IN  Computed(MeanOf(mse_array))

\* metadata["indices"] is None or an array of positions
None == [is_none |-> TRUE, array |-> <<>>]

Optional(array) == [is_none |-> FALSE, array |-> array]

\* a compute that samples every floor(n / cap)-th row from the first on
MSETargetComputeStriding(m, y_true, y_pred, column_names) ==
    LET class_index == ListIndex(column_names, m.target_name)
        n == Len(y_true.data)
        cap == m.metadata_series_length
        mse_array == SquaredErrors(Column(y_true, class_index), Column(y_pred, class_index))
        indices == [k \in 1..cap |-> (k - 1) * (n \div cap)]
        sampled(series) == [k \in 1..cap |-> series[indices[k] + 1]]
    IN  IF n > cap /\ cap > 0
        THEN [err |-> "none", value |-> MeanOf(mse_array),
              metadata |-> [y_true |-> sampled(Column(y_true, class_index)),
                            y_pred |-> sampled(Column(y_pred, class_index)),
                            error |-> sampled(mse_array), indices |-> Optional(indices)]]
        ELSE [err |-> "none", value |-> MeanOf(mse_array),
              metadata |-> [y_true |-> Column(y_true, class_index),
                            y_pred |-> Column(y_pred, class_index),
                            error |-> mse_array, indices |-> None]]

\* MSETarget.compute: [err, value, metadata]; the series of the metadata are the
\* whole column, or the rows np.linspace picks when there are more rows than
\* metadata_series_length
MSETargetCompute(m, y_true, y_pred, column_names) ==
    LET class_index == ListIndex(column_names, m.target_name)
        n == Len(y_true.data)
        Sampled(mse_array, lin) ==
            LET sampled(series) == [k \in DOMAIN lin.indices |-> series[lin.indices[k] + 1]]
            IN  IF lin.err # "none" THEN Raised(lin.err)
                ELSE [err |-> "none", value |-> MeanOf(mse_array),
                      metadata |-> [y_true |-> sampled(Column(y_true, class_index)),
                                    y_pred |-> sampled(Column(y_pred, class_index)),
                                    error |-> sampled(mse_array),
                                    indices |-> Optional(lin.indices)]]
        Whole(mse_array) ==
            [err |-> "none", value |-> MeanOf(mse_array),
             metadata |-> [y_true |-> Column(y_true, class_index),
                           y_pred |-> Column(y_pred, class_index),
                           error |-> mse_array,
                           indices |-> None]]
    IN  IF class_index = 0 THEN Raised("ValueError")
        ELSE IF class_index > Shape(y_true)[2] \/ class_index > Shape(y_pred)[2]
        THEN Raised("IndexError")
        ELSE IF n > m.metadata_series_length
        THEN Sampled(SquaredErrors(Column(y_true, class_index), Column(y_pred, class_index)),
                     Linspace(n - 1, m.metadata_series_length))
        ELSE Whole(SquaredErrors(Column(y_true, class_index), Column(y_pred, class_index)))

(***************************************************************************)
(* np.sqrt.  The square root of a rational is kept exactly, as a sum of    *)
(* square roots: a function from square-free radicands to rational         *)
(* coefficients, 0 being the sum of no term.  sqrt(18/4) is 3/2 * sqrt(2), *)
(* that is (2 :> <<3, 2>>).                                                *)
(***************************************************************************)
\* the largest s with s * s dividing n, n > 0
LargestRoot(n) ==
    CHOOSE s \in 1..n : n % (s * s) = 0 /\ \A t \in (s + 1)..n : t * t > n \/ n % (t * t) # 0

Sqrt(q) ==
    IF IsNaN(q) \/ q[1] < 0 THEN NaN
    ELSE IF q[1] = 0 THEN <<>>
    ELSE LET s == LargestRoot(q[1] * q[2])
         IN  ((q[1] * q[2]) \div (s * s)) :> Rat(s, q[2])

\* ndarray.mean() of a sequence of square roots
MeanOfRoots(roots) ==
    IF \E i \in DOMAIN roots : roots[i] = NaN THEN NaN
    ELSE LET radicands == UNION {DOMAIN roots[i] : i \in DOMAIN roots}
             total(t) == RSum([i \in DOMAIN roots |->
                                  IF t \in DOMAIN roots[i] THEN roots[i][t] ELSE Rat(0, 1)])
         IN  [t \in radicands |-> RDivInt(total(t), Len(roots))]

\* a compute that leaves the error series of the MSE as it is
RMSETargetComputePlainErrors(m, y_true, y_pred, column_names) ==
    LET mse_result == MSETargetCompute(m, y_true, y_pred, column_names)
    IN  IF mse_result.err # "none" THEN mse_result
        ELSE [mse_result EXCEPT !.value = Sqrt(@)]

RMSETargetCompute(m, y_true, y_pred, column_names) ==
    LET Rooted(mse_result) ==
            IF mse_result.err # "none" THEN mse_result
            ELSE [mse_result EXCEPT !.value = Sqrt(@),
                                    !.metadata.error = [i \in DOMAIN @ |-> Sqrt(@[i])]]
    IN  Rooted(MSETargetCompute(m, y_true, y_pred, column_names))

RMSEMacroCompute(m, y_true, y_pred, column_names) ==
    LET n_columns == Shape(y_true)[2]
        mse_array == [c \in 1..n_columns |->
                         MeanOf(SquaredErrors(Column(y_true, c), Column(y_pred, c)))]
        rmse_array == [c \in 1..n_columns |-> Sqrt(mse_array[c])]
    IN  Computed(MeanOfRoots(rmse_array))

\* Metric.compute, dispatched on the variant
MetricCompute(m, y_true, y_pred, column_names) ==
    CASE m.cls = "PrecisionTarget" -> PrecisionTargetCompute(m, y_true, y_pred, column_names)
      [] m.cls = "PrecisionMicro" -> PrecisionMicroCompute(m, y_true, y_pred, column_names)
      [] m.cls = "PrecisionMacro" -> PrecisionMacroCompute(m, y_true, y_pred, column_names)
      [] m.cls = "RecallMicro" -> RecallMicroCompute(m, y_true, y_pred, column_names)
      [] m.cls = "RecallMacro" -> RecallMacroCompute(m, y_true, y_pred, column_names)
      [] m.cls = "F1ScoreMicro" -> F1ScoreMicroCompute(m, y_true, y_pred, column_names)
      [] m.cls = "F1ScoreMacro" -> F1ScoreMacroCompute(m, y_true, y_pred, column_names)
      [] m.cls = "RocAucTarget" -> RocAucTargetCompute(m, y_true, y_pred, column_names)
      [] m.cls = "MSEMacro" -> MSEMacroCompute(m, y_true, y_pred, column_names)
      [] m.cls = "MSETarget" -> MSETargetCompute(m, y_true, y_pred, column_names)
      [] m.cls = "RMSETarget" -> RMSETargetCompute(m, y_true, y_pred, column_names)
      [] m.cls = "RMSEMacro" -> RMSEMacroCompute(m, y_true, y_pred, column_names)

\* a reducer that returns the oldest value
OldestReducer(values) ==
    IF values = <<>> THEN Raised("IndexError") ELSE Computed(values[1])

(***************************************************************************)
(* Reducers.  A reducer call ends [err, value]; err is the exception it    *)
(* raises, "none" when it returns.                                         *)
(***************************************************************************)
\* values[-1]
LatestReducer(values) ==
    IF values = <<>> THEN Raised("IndexError") ELSE Computed(values[Len(values)])

\* float(np.mean(values)): NaN (with a warning) on an empty list
MeanReducer(values) == Computed(MeanOf(values))

\* np.max: NaN as soon as one value is NaN
NpMax(values) ==
    IF \E i \in DOMAIN values : IsNaN(values[i]) THEN NaN
    ELSE values[CHOOSE i \in DOMAIN values : \A j \in DOMAIN values : ~RLess(values[i], values[j])]

NpMin(values) ==
    IF \E i \in DOMAIN values : IsNaN(values[i]) THEN NaN
    ELSE values[CHOOSE i \in DOMAIN values : \A j \in DOMAIN values : ~RLess(values[j], values[i])]

MaxReducer(values) ==
    IF values = <<>> THEN Raised("ValueError") ELSE Computed(NpMax(values))

\* a minimum that is NaN on an empty list instead of raising
MinOrNaNReducer(values) ==
    IF values = <<>> THEN Computed(NaN) ELSE Computed(NpMin(values))

MinReducer(values) ==
    IF values = <<>> THEN Raised("ValueError") ELSE Computed(NpMin(values))

MinMaxReducer(values) ==
    IF values = <<>> THEN Raised("ValueError") ELSE Computed(RSub(NpMax(values), NpMin(values)))

\* ReducerEnum member -> its reducer, applied
ApplyReducer(reducer_enum, values) ==
    CASE reducer_enum = "LATEST" -> LatestReducer(values)
      [] reducer_enum = "MEAN" -> MeanReducer(values)
      [] reducer_enum = "MAX" -> MaxReducer(values)
      [] reducer_enum = "MIN" -> MinReducer(values)
      [] reducer_enum = "MINMAX" -> MinMaxReducer(values)

\* str.lower() on the names of the ReducerEnum members
Lower(name) ==
    CASE name = "LATEST" -> "latest"
      [] name = "MEAN" -> "mean"
      [] name = "MAX" -> "max"
      [] name = "MIN" -> "min"
      [] name = "MINMAX" -> "minmax"

(***************************************************************************)
(* Python dicts with string keys: functions; d[k] = v adds or overwrites.  *)
(***************************************************************************)
EmptyDict == <<>>

DictSet(d, k, v) == [x \in (DOMAIN d) \cup {k} |-> IF x = k THEN v ELSE d[x]]

\* dict.update(other)
DictUpdate(d, other) ==
    [x \in (DOMAIN d) \cup (DOMAIN other) |-> IF x \in DOMAIN other THEN other[x] ELSE d[x]]

(***************************************************************************)
(* MetricSpec: [metric, reducers, history, inputs].  `history` is the list *)
(* of MetricResults; `inputs` is a history variable of the model, the      *)
(* batches of the compute calls that filled `history`.                     *)
(***************************************************************************)
NewMetricSpec(metric, reducers) ==
    [metric |-> metric, reducers |-> reducers, history |-> <<>>, inputs |-> <<>>]

SpecId(spec) == MetricId(spec.metric)

get_values_history(spec) == [i \in 1..Len(spec.history) |-> spec.history[i].value]

get_results_history(spec) == spec.history

\* a compute that puts the new result in front of the history
SpecComputeOnPrepending(spec, batch) ==
    LET r == MetricCompute(spec.metric, batch.y_true, batch.y_pred, batch.column_names)
    IN  IF r.err # "none" THEN [err |-> r.err, spec |-> spec]
        ELSE [err |-> "none",
              spec |-> [spec EXCEPT !.history = <<MetricResult(spec.metric, r.value)>> \o @,
                                    !.inputs = Append(@, batch)]]

\* MetricSpec.compute: [err, spec]; every modelled compute takes column_names
SpecComputeOn(spec, batch) ==
    LET Appending(r) ==
            IF r.err # "none" THEN [err |-> r.err, spec |-> spec]
            ELSE [err |-> "none",
                  spec |-> [spec EXCEPT !.history = Append(@, MetricResult(spec.metric, r.value)),
                                        !.inputs = Append(@, batch)]]
    IN  Appending(MetricCompute(spec.metric, batch.y_true, batch.y_pred, batch.column_names))

RECURSIVE ReduceFrom(_, _, _)
ReduceFrom(spec, k, reduced_values) ==
    IF k > Len(spec.reducers) THEN [err |-> "none", out |-> reduced_values]
    ELSE LET name == SpecId(spec) \o "_" \o Lower(spec.reducers[k])
             r == ApplyReducer(spec.reducers[k], get_values_history(spec))
         IN  IF r.err # "none" THEN [err |-> r.err, out |-> EmptyDict]
             ELSE ReduceFrom(spec, k + 1, DictSet(reduced_values, name, r.value))

\* MetricSpec.get_reduced_values: [err, out]
get_reduced_values(spec) == ReduceFrom(spec, 1, EmptyDict)

clear_history(spec) == [spec EXCEPT !.history = <<>>, !.inputs = <<>>]

(***************************************************************************)
(* MetricEvaluator: the operations on its list of specs.  Each returns     *)
(* [err, specs]: the exception raised ("none" when the call returns) and   *)
(* the list as the call leaves it.                                         *)
(***************************************************************************)
Batch(y_true, y_pred, column_names) ==
    [y_true |-> y_true, y_pred |-> y_pred, column_names |-> column_names]

\* a uniqueness check that tells apart two specs of one id by their reducers
validate_id_and_reducers(specs) ==
    IF \E i, j \in DOMAIN specs :
           i < j /\ SpecId(specs[i]) = SpecId(specs[j]) /\ specs[i].reducers = specs[j].reducers
    THEN "ValueError" ELSE "none"

\* __validate_metric_specs: "ValueError" on the first id seen twice
validate_metric_specs(specs) ==
    IF \E i, j \in DOMAIN specs : i < j /\ SpecId(specs[i]) = SpecId(specs[j])
    THEN "ValueError" ELSE "none"

\* __validate_common_inputs
validate_common_inputs(y_true, y_pred, column_names) ==
    IF y_true.ndim # 2 THEN "ValueError"
    ELSE IF y_pred.ndim # 2 THEN "ValueError"
    ELSE IF Shape(y_true) # Shape(y_pred) THEN "ValueError"
    ELSE IF Len(column_names) # Shape(y_pred)[2] THEN "ValueError"
    ELSE "none"

\* np.issubdtype(dtype, np.integer) or np.issubdtype(dtype, np.str_)
IsCategorical(a) == a.dtype \in {"int", "str"}

\* np.issubdtype(dtype, np.floating)
IsFloating(a) == a.dtype = "float"

\* np.all((y_pred >= 0.0) & (y_pred <= 1.0))
AllInUnitInterval(a) == \A i \in DOMAIN Ravel(a) : Ravel(a)[i] >= 0 /\ Ravel(a)[i] <= 1

\* __find_specs_by_type: the positions, in list order, of the specs of one type
RECURSIVE FindFrom(_, _, _)
FindFrom(specs, k, metric_type) ==
    IF k > Len(specs) THEN <<>>
    ELSE (IF MetricType(specs[k].metric) = metric_type THEN <<k>> ELSE <<>>)
         \o FindFrom(specs, k + 1, metric_type)

\* a lookup that ignores the metric type and returns every position
find_specs_of_any_type(specs, metric_type) == [k \in DOMAIN specs |-> k]

find_specs_by_type(specs, metric_type) == FindFrom(specs, 1, metric_type)

\* a loop that skips a spec whose compute raises and goes on with the next one
RECURSIVE ComputeEachSkipping(_, _, _)
ComputeEachSkipping(specs, found, batch) ==
    IF found = <<>> THEN [err |-> "none", specs |-> specs]
    ELSE LET r == SpecComputeOn(specs[Head(found)], batch)
         IN  ComputeEachSkipping([specs EXCEPT ![Head(found)] = r.spec], Tail(found), batch)

\* for spec in found: spec.compute(...); the first exception ends the loop
RECURSIVE ComputeEach(_, _, _)
ComputeEach(specs, found, batch) ==
    IF found = <<>> THEN [err |-> "none", specs |-> specs]
    ELSE LET Continuing(r) ==
                 IF r.err # "none" THEN [err |-> r.err, specs |-> specs]
                 ELSE ComputeEach([specs EXCEPT ![Head(found)] = r.spec], Tail(found), batch)
         IN  Continuing(SpecComputeOn(specs[Head(found)], batch))

LabelTypeChecks(y_true, y_pred) ==
    IF ~IsCategorical(y_true) THEN "ValueError"
    ELSE IF ~IsCategorical(y_pred) THEN "ValueError"
    ELSE "none"

\* the probability checks without the [0, 1] range check
ProbTypeChecksWithoutRange(y_true, y_pred) ==
    IF ~IsCategorical(y_true) THEN "ValueError"
    ELSE IF ~IsFloating(y_pred) THEN "ValueError"
    ELSE "none"

ProbTypeChecks(y_true, y_pred) ==
    IF ~IsCategorical(y_true) THEN "ValueError"
    ELSE IF ~IsFloating(y_pred) THEN "ValueError"
    ELSE IF ~AllInUnitInterval(y_pred) THEN "ValueError"
    ELSE "none"

add_label_evaluation(specs, batch) ==
    IF validate_common_inputs(batch.y_true, batch.y_pred, batch.column_names) # "none"
    THEN [err |-> "ValueError", specs |-> specs]
    ELSE IF LabelTypeChecks(batch.y_true, batch.y_pred) # "none"
    THEN [err |-> "ValueError", specs |-> specs]
    ELSE ComputeEach(specs, find_specs_by_type(specs, "labels"), batch)

add_prob_evaluation(specs, batch) ==
    IF validate_common_inputs(batch.y_true, batch.y_pred, batch.column_names) # "none"
    THEN [err |-> "ValueError", specs |-> specs]
    ELSE IF ProbTypeChecks(batch.y_true, batch.y_pred) # "none"
    THEN [err |-> "ValueError", specs |-> specs]
    ELSE ComputeEach(specs, find_specs_by_type(specs, "probs"), batch)

add_regression_evaluation(specs, batch) ==
    IF validate_common_inputs(batch.y_true, batch.y_pred, batch.column_names) # "none"
    THEN [err |-> "ValueError", specs |-> specs]
    ELSE ComputeEach(specs, find_specs_by_type(specs, "scores"), batch)

(***************************************************************************)
(* MetricEvaluator.get_results: [err, values, steps, figures].  A figure   *)
(* is modelled by the data handed to the plotting function.                *)
(***************************************************************************)
\* a collection of reduced values that passes over a spec whose reducers raise
RECURSIVE ReducedValuesFromSkipping(_, _, _)
ReducedValuesFromSkipping(specs, k, reduced) ==
    IF k > Len(specs) THEN [err |-> "none", out |-> reduced]
    ELSE LET r == get_reduced_values(specs[k])
         IN  ReducedValuesFromSkipping(specs, k + 1,
                 IF r.err # "none" THEN reduced ELSE DictUpdate(reduced, r.out))

RECURSIVE ReducedValuesFrom(_, _, _)
ReducedValuesFrom(specs, k, reduced) ==
    IF k > Len(specs) THEN [err |-> "none", out |-> reduced]
    ELSE LET r == get_reduced_values(specs[k])
         IN  IF r.err # "none" THEN [err |-> r.err, out |-> EmptyDict]
             ELSE ReducedValuesFrom(specs, k + 1, DictUpdate(reduced, r.out))

RECURSIVE FullHistoryFrom(_, _, _)
FullHistoryFrom(specs, k, history) ==
    IF k > Len(specs) THEN history
    ELSE FullHistoryFrom(specs, k + 1,
             DictSet(history, SpecId(specs[k]) \o "_steps", get_values_history(specs[k])))

RECURSIVE RocAucResultsFrom(_, _, _)
RocAucResultsFrom(specs, k, results) ==
    IF k > Len(specs) THEN results
    ELSE RocAucResultsFrom(specs, k + 1,
             IF MetricName(specs[k].metric) = "roc_auc"
             THEN DictSet(results, SpecId(specs[k]), get_results_history(specs[k]))
             ELSE results)

get_roc_auc_plots(specs) ==
    LET roc_auc_results == RocAucResultsFrom(specs, 1, EmptyDict)
    IN  IF DOMAIN roc_auc_results # {}
        THEN DictSet(EmptyDict, "roc_auc_curves", roc_auc_results) ELSE EmptyDict

RECURSIVE CmResultsFrom(_, _, _)
CmResultsFrom(specs, k, cm_results) ==
    IF k > Len(specs) THEN cm_results
    ELSE CmResultsFrom(specs, k + 1,
             IF MetricName(specs[k].metric) = "accuracy"
             THEN get_results_history(specs[k]) ELSE cm_results)

get_confusion_matrix_plots(specs) ==
    LET cm_results == CmResultsFrom(specs, 1, <<>>)
    IN  IF cm_results # <<>>
        THEN DictSet(EmptyDict, "confusion_matrices", cm_results) ELSE EmptyDict

RECURSIVE RegressionResultsFrom(_, _, _)
RegressionResultsFrom(specs, k, results) ==
    IF k > Len(specs) THEN results
    ELSE RegressionResultsFrom(specs, k + 1,
             IF MetricType(specs[k].metric) = "scores" /\ MetricScope(specs[k].metric) = "target"
             THEN DictSet(results, SpecId(specs[k]), get_results_history(specs[k]))
             ELSE results)

get_regression_plots(specs) ==
    LET target_regression_results == RegressionResultsFrom(specs, 1, EmptyDict)
    IN  IF DOMAIN target_regression_results # {}
        THEN DictSet(EmptyDict, "regression_plots", target_regression_results) ELSE EmptyDict

get_results(specs) ==
    LET reduced == ReducedValuesFrom(specs, 1, EmptyDict)
    IN  IF reduced.err # "none"
        THEN [err |-> reduced.err, values |-> EmptyDict, steps |-> EmptyDict, figures |-> EmptyDict]
        ELSE [err |-> "none",
              values |-> reduced.out,
              steps |-> FullHistoryFrom(specs, 1, EmptyDict),
              figures |-> DictUpdate(DictUpdate(get_roc_auc_plots(specs),
                                                get_confusion_matrix_plots(specs)),
                                     get_regression_plots(specs))]

(***************************************************************************)
(* encoding.py.  sklearn's label_binarize is modelled for integer labels   *)
(* and integer classes: a 1-D y (or one column) gives a one-hot matrix,    *)
(* reduced to the single column of the last class when y holds at most two *)
(* labels and there are at most two classes; a 0/1 matrix of two or more   *)
(* columns is taken as an indicator matrix, which must have one column per *)
(* class and whose columns follow the sorted classes.                      *)
(***************************************************************************)
Failed(err) == [err |-> err, arr |-> Arr2("int", <<>>)]

Done(arr) == [err |-> "none", arr |-> arr]

\* np.searchsorted(np.sort(classes), classes), 1-based
SortedPos(classes, k) == 1 + Cardinality({j \in DOMAIN classes : classes[j].v < classes[k].v})

label_binarize(y, classes) ==
    LET K == Len(classes)
    IN  IF y.ndim = 2 /\ Shape(y)[2] >= 2
        THEN IF \E i \in DOMAIN Ravel(y) : Ravel(y)[i] \notin {0, 1} THEN Failed("ValueError")
             ELSE IF K # Shape(y)[2] THEN Failed("ValueError")
             ELSE Done(Arr2("int", [r \in DOMAIN y.data |->
                                       [k \in 1..K |-> y.data[r][SortedPos(classes, k)]]]))
        ELSE LET cells == Column(y, 1)
                 binary == Cardinality({cells[i] : i \in DOMAIN cells}) <= 2
                 hot(r, k) == IF classes[k] = IntName(cells[r]) THEN 1 ELSE 0
             IN  IF binary /\ K = 1
                 THEN Done(Arr2("int", [r \in DOMAIN cells |-> <<0>>]))
                 ELSE IF binary /\ K = 2
                 THEN Done(Arr2("int", [r \in DOMAIN cells |-> <<hot(r, K)>>]))
                 ELSE Done(Arr2("int", [r \in DOMAIN cells |-> [k \in 1..K |-> hot(r, k)]]))

toolbox_binarize_labels(y, classes) ==
    LET Y == label_binarize(y, classes)
    IN  IF Y.err # "none" THEN Y
        ELSE IF Y.arr.ndim = 2 /\ Shape(Y.arr)[2] = 1
        THEN Done(Arr2("int", [r \in DOMAIN Y.arr.data |->
                                  <<1 - Y.arr.data[r][1], Y.arr.data[r][1]>>]))
        ELSE Y

toolbox_binarize_probs(y_pred) ==
    IF y_pred.ndim = 1
    THEN Arr2(y_pred.dtype, [r \in DOMAIN y_pred.data |->
                                <<1 - y_pred.data[r][1], y_pred.data[r][1]>>])
    ELSE y_pred

toolbox_widen_series(y) ==
    IF y.ndim = 1 THEN Arr2(y.dtype, y.data) ELSE y

(***************************************************************************)
(* MetricEvaluator.add_model_evaluation.  A model is                       *)
(* [attr, classes, label_predictions, prob_predictions]: attr is the name  *)
(* of its class-list attribute ("classes_", "classes" or "none").  An      *)
(* optional column_names is [given, names].  The call is three blocks run  *)
(* in order over a record that carries the local variables y_true and      *)
(* column_names, the list of specs, the raised exception and the number of *)
(* predict and predict_proba calls made so far.                            *)
(***************************************************************************)
NoNames == [given |-> FALSE, names |-> <<>>]

GivenNames(names) == [given |-> TRUE, names |-> names]

\* not column_names
Falsy(column_names) == ~column_names.given \/ column_names.names = <<>>

\* a lookup of the class list that asks for classes before classes_
get_model_classes_plain_first(model) ==
    IF "classes" \in model.attrs THEN [err |-> "none", classes |-> model.classes]
    ELSE IF "classes_" \in model.attrs THEN [err |-> "none", classes |-> model.classes_]
    ELSE [err |-> "ValueError", classes |-> <<>>]

\* __get_model_classes: [err, classes]; hasattr(model, "classes_") is asked first
get_model_classes(model) ==
    IF "classes_" \in model.attrs THEN [err |-> "none", classes |-> model.classes_]
    ELSE IF "classes" \in model.attrs THEN [err |-> "none", classes |-> model.classes]
    ELSE [err |-> "ValueError", classes |-> <<>>]

ClassesFor(model, column_names) ==
    IF Falsy(column_names) THEN get_model_classes(model)
    ELSE [err |-> "none", classes |-> column_names.names]

LabelBlock(st, model) ==
    IF st.err # "none" \/ find_specs_by_type(st.specs, "labels") = <<>> THEN st
    ELSE LET c == ClassesFor(model, st.column_names)
         IN  IF c.err # "none" THEN [st EXCEPT !.err = c.err]
             ELSE LET called == [st EXCEPT !.predict = @ + 1]
                      y_pred == toolbox_binarize_labels(model.label_predictions, c.classes)
                      y_true == toolbox_binarize_labels(st.y_true, c.classes)
                  IN  IF y_pred.err # "none" THEN [called EXCEPT !.err = y_pred.err]
                      ELSE IF y_true.err # "none" THEN [called EXCEPT !.err = y_true.err]
                      ELSE LET After(r) == [called EXCEPT !.err = r.err, !.specs = r.specs,
                                                             !.y_true = y_true.arr]
                           IN  After(add_label_evaluation(st.specs,
                                         Batch(y_true.arr, y_pred.arr, c.classes)))

\* a probability block that runs whether or not a probability spec is registered
ProbBlockUnguarded(st, model) ==
    IF st.err # "none" THEN st
    ELSE LET c == ClassesFor(model, st.column_names)
         IN  IF c.err # "none" THEN [st EXCEPT !.err = c.err]
             ELSE LET called == [st EXCEPT !.predict_proba = @ + 1]
                      y_pred == toolbox_binarize_probs(model.prob_predictions)
                      y_true == toolbox_binarize_labels(st.y_true, c.classes)
                  IN  IF y_true.err # "none" THEN [called EXCEPT !.err = y_true.err]
                      ELSE LET After(r) == [called EXCEPT !.err = r.err, !.specs = r.specs,
                                                             !.y_true = y_true.arr]
                           IN  After(add_prob_evaluation(st.specs,
                                         Batch(y_true.arr, y_pred, c.classes)))

ProbBlock(st, model) ==
    IF st.err # "none" \/ find_specs_by_type(st.specs, "probs") = <<>> THEN st
    ELSE LET c == ClassesFor(model, st.column_names)
         IN  IF c.err # "none" THEN [st EXCEPT !.err = c.err]
             ELSE LET called == [st EXCEPT !.predict_proba = @ + 1]
                      y_pred == toolbox_binarize_probs(model.prob_predictions)
                      y_true == toolbox_binarize_labels(st.y_true, c.classes)
                  IN  IF y_true.err # "none" THEN [called EXCEPT !.err = y_true.err]
                      ELSE LET After(r) == [called EXCEPT !.err = r.err, !.specs = r.specs,
                                                             !.y_true = y_true.arr]
                           IN  After(add_prob_evaluation(st.specs,
                                         Batch(y_true.arr, y_pred, c.classes)))

\* list(range(y_true.shape[1])): IndexError on a 1-D y_true
RangeNames(y_true) == [k \in 1..Shape(y_true)[2] |-> IntName(k - 1)]

RegressionBlock(st, model) ==
    IF st.err # "none" \/ find_specs_by_type(st.specs, "scores") = <<>> THEN st
    ELSE IF Falsy(st.column_names) /\ st.y_true.ndim = 1 THEN [st EXCEPT !.err = "IndexError"]
    ELSE LET column_names == IF Falsy(st.column_names) THEN RangeNames(st.y_true)
                             ELSE st.column_names.names
             y_pred == toolbox_widen_series(model.label_predictions)
             y_true == toolbox_widen_series(st.y_true)
             After(r) == [st EXCEPT !.predict = @ + 1, !.err = r.err, !.specs = r.specs,
                                    !.y_true = y_true, !.column_names = GivenNames(column_names)]
         IN  After(add_regression_evaluation(st.specs, Batch(y_true, y_pred, column_names)))

add_model_evaluation(specs, model, y_true, column_names) ==
    RegressionBlock(
        ProbBlock(
            LabelBlock([err |-> "none", specs |-> specs, y_true |-> y_true,
                        column_names |-> column_names, predict |-> 0, predict_proba |-> 0],
                       model),
            model),
        model)

(***************************************************************************)
(* EvaluatorBuilder.add_metric and utils.value_to_enum.  A key is an enum  *)
(* member [kind "enum", cls, name] or a Python str [kind "str", chars],    *)
(* the str being the sequence of its characters, so that upper() and       *)
(* strip() are computed and not assumed.                                   *)
(***************************************************************************)
EnumMember(cls, name) == [kind |-> "enum", cls |-> cls, name |-> name, chars |-> <<>>]

StrKey(chars) == [kind |-> "str", cls |-> "str", name |-> "", chars |-> chars]

LowerCase ==
    <<"a", "b", "c", "d", "e", "f", "g", "h", "i", "j", "k", "l", "m",
      "n", "o", "p", "q", "r", "s", "t", "u", "v", "w", "x", "y", "z">>

UpperCase ==
    <<"A", "B", "C", "D", "E", "F", "G", "H", "I", "J", "K", "L", "M",
      "N", "O", "P", "Q", "R", "S", "T", "U", "V", "W", "X", "Y", "Z">>

\* str.upper()
UpperChar(c) ==
    IF \E k \in DOMAIN LowerCase : LowerCase[k] = c
    THEN UpperCase[CHOOSE k \in DOMAIN LowerCase : LowerCase[k] = c]
    ELSE c

Upper(chars) == [k \in DOMAIN chars |-> UpperChar(chars[k])]

Whitespace == {" ", "\t", "\n"}

\* str.strip(): the whitespace at both ends goes, the whitespace inside stays
RECURSIVE LStrip(_)
LStrip(chars) ==
    IF chars # <<>> /\ Head(chars) \in Whitespace THEN LStrip(Tail(chars)) ELSE chars

RECURSIVE RStrip(_)
RStrip(chars) ==
    IF chars # <<>> /\ chars[Len(chars)] \in Whitespace
    THEN RStrip(SubSeq(chars, 1, Len(chars) - 1))
    ELSE chars

Strip(chars) == RStrip(LStrip(chars))

\* the members of MetricEnum (those whose classes are modelled) and of ReducerEnum:
\* the characters of the member's name and the member
MetricEnumMembers ==
    << [chars |-> <<"A", "C", "C", "U", "R", "A", "C", "Y">>, name |-> "ACCURACY"],
       [chars |-> <<"P", "R", "E", "C", "I", "S", "I", "O", "N", "_", "M", "I", "C", "R", "O">>,
        name |-> "PRECISION_MICRO"],
       [chars |-> <<"P", "R", "E", "C", "I", "S", "I", "O", "N", "_", "T", "A", "R", "G", "E", "T">>,
        name |-> "PRECISION_TARGET"],
       [chars |-> <<"R", "O", "C", "_", "A", "U", "C", "_", "T", "A", "R", "G", "E", "T">>,
        name |-> "ROC_AUC_TARGET"],
       [chars |-> <<"M", "S", "E", "_", "T", "A", "R", "G", "E", "T">>, name |-> "MSE_TARGET"],
       [chars |-> <<"M", "S", "E", "_", "M", "A", "C", "R", "O">>, name |-> "MSE_MACRO"] >>

ReducerEnumMembers ==
    << [chars |-> <<"L", "A", "T", "E", "S", "T">>, name |-> "LATEST"],
       [chars |-> <<"M", "E", "A", "N">>, name |-> "MEAN"],
       [chars |-> <<"M", "A", "X">>, name |-> "MAX"],
       [chars |-> <<"M", "I", "N">>, name |-> "MIN"],
       [chars |-> <<"M", "I", "N", "M", "A", "X">>, name |-> "MINMAX"] >>

EnumMembers(enum_class) ==
    IF enum_class = "MetricEnum" THEN MetricEnumMembers ELSE ReducerEnumMembers

\* MetricEnum.<member>.value: the metric class
MetricClassOf(name) ==
    CASE name = "ACCURACY" -> "Accuracy"
      [] name = "PRECISION_MICRO" -> "PrecisionMicro"
      [] name = "PRECISION_TARGET" -> "PrecisionTarget"
      [] name = "ROC_AUC_TARGET" -> "RocAucTarget"
      [] name = "MSE_TARGET" -> "MSETarget"
      [] name = "MSE_MACRO" -> "MSEMacro"

\* a conversion that looks the string up as it is, neither upper-cased nor stripped
value_to_enum_verbatim(value, enum_class) ==
    IF value.kind = "enum" /\ value.cls = enum_class THEN [err |-> "none", name |-> value.name]
    ELSE LET members == EnumMembers(enum_class)
         IN  IF value.kind = "str" /\ \E k \in DOMAIN members : members[k].chars = value.chars
             THEN [err |-> "none",
                   name |-> members[CHOOSE k \in DOMAIN members :
                                        members[k].chars = value.chars].name]
             ELSE [err |-> "ValueError", name |-> ""]

\* value_to_enum: [err, name]; a member of enum_class is returned as it is, anything
\* else is looked up by str(value).upper().strip() (the str of a member of another
\* enum, "Class.NAME", is the name of no member)
value_to_enum(value, enum_class) ==
    IF value.kind = "enum" /\ value.cls = enum_class THEN [err |-> "none", name |-> value.name]
    ELSE LET members == EnumMembers(enum_class)
             key == Strip(Upper(value.chars))
         IN  IF value.kind = "str" /\ \E k \in DOMAIN members : members[k].chars = key
             THEN [err |-> "none",
                   name |-> members[CHOOSE k \in DOMAIN members : members[k].chars = key].name]
             ELSE [err |-> "ValueError", name |-> ""]

\* inspect.signature(metric_cls.__init__).parameters, without self
InitParams(cls) ==
    CASE cls = "Accuracy" -> {"opt_confusion_normalization"}
      [] cls = "PrecisionMicro" -> {}
      [] cls = "PrecisionTarget" -> {"target_name"}
      [] cls = "RocAucTarget" -> {"target_name"}
      [] cls = "MSETarget" -> {"target_name", "metadata_series_length"}
      [] cls = "MSEMacro" -> {}

\* the parameters of __init__ that have no default
RequiredParams(cls) == InitParams(cls) \cap {"target_name"}

\* tuple(value_to_enum(r, ReducerEnum) for r in reducers): [err, reducers]
RECURSIVE ReducersFrom(_, _, _)
ReducersFrom(reducers, k, out) ==
    IF k > Len(reducers) THEN [err |-> "none", reducers |-> out]
    ELSE LET r == value_to_enum(reducers[k], "ReducerEnum")
         IN  IF r.err # "none" THEN [err |-> r.err, reducers |-> <<>>]
             ELSE ReducersFrom(reducers, k + 1, Append(out, r.name))

\* EvaluatorBuilder.add_metric: [err, specs, ret]; ret is "self" for return self
add_metric(specs, metric, reducers, kwargs) ==
    LET rs == ReducersFrom(reducers, 1, <<>>)
        m == value_to_enum(metric, "MetricEnum")
        Failure(err) == [err |-> err, specs |-> specs, ret |-> "None"]
    IN  IF rs.err # "none" THEN Failure(rs.err)
        ELSE IF m.err # "none" THEN Failure(m.err)
        ELSE LET metric_cls == MetricClassOf(m.name)
             IN  IF DOMAIN kwargs \ InitParams(metric_cls) # {} THEN Failure("TypeError")
                 ELSE IF RequiredParams(metric_cls) \ DOMAIN kwargs # {} THEN Failure("TypeError")
                 ELSE [err |-> "none",
                       specs |-> Append(specs,
                                     NewMetricSpec(
                                         Metric(metric_cls,
                                                IF "target_name" \in DOMAIN kwargs
                                                THEN kwargs["target_name"] ELSE NoTarget),
                                         rs.reducers)),
                       ret |-> "self"]

(***************************************************************************)
(* The inputs the model draws from.                                        *)
(***************************************************************************)
I0 == IntName(0)

I1 == IntName(1)

I2 == IntName(2)

Names01 == <<I0, I1>>

OneHot01 == << <<1, 0>>, <<0, 1>> >>

\* label batches (integer arrays)
BL1 == Batch(Arr2("int", OneHot01), Arr2("int", OneHot01), Names01)

BL2 == Batch(Arr2("int", OneHot01), Arr2("int", << <<0, 1>>, <<0, 1>> >>), Names01)

\* probability batches (integer truth, float predictions); BPOut leaves [0, 1]
BP1 == Batch(Arr2("int", OneHot01), Arr2("float", OneHot01), Names01)

BP2 == Batch(Arr2("int", OneHot01), Arr2("float", << <<0, 1>>, <<0, 1>> >>), Names01)

BPOut == Batch(Arr2("int", OneHot01), Arr2("float", << <<2, 0>>, <<0, 1>> >>), Names01)

\* a regression batch (float arrays)
BR1 == Batch(Arr2("float", OneHot01), Arr2("float", << <<1, 2>>, <<3, 1>> >>), Names01)

\* a 1-D y_true, two shapes that differ, one column name for two columns
B1D == Batch(Arr1("int", <<0, 1>>), Arr2("int", OneHot01), Names01)

BShape == Batch(Arr2("int", OneHot01), Arr2("int", << <<1, 0>> >>), Names01)

BNames == Batch(Arr2("int", OneHot01), Arr2("int", OneHot01), <<I1>>)

\* what each add_*_evaluation is called with: batches it accepts and batches it
\* rejects (a wrong dtype, a probability of 2.0, the three malformed shapes)
LabelInputs == <<BL1, BL2, BP1, B1D, BShape, BNames>>

ProbInputs == <<BP1, BP2, BL1, BPOut, B1D, BShape, BNames>>

RegressionInputs == <<BR1, BL2, B1D, BShape, BNames>>

\* what MetricSpec.compute is called with directly: batches of the metric's type
ComputeInputs(metric_type) ==
    CASE metric_type = "labels" -> <<BL1, BL2>>
      [] metric_type = "probs" -> <<BP1, BP2>>
      [] metric_type = "scores" -> <<BR1, BL2>>

\* the MetricSpecs that are configured: (metric, reducers)
SpecPool ==
    { NewMetricSpec(Metric("PrecisionTarget", I1), <<"LATEST">>),
      NewMetricSpec(Metric("PrecisionTarget", I1), <<"MEAN", "MIN">>),
      NewMetricSpec(Metric("PrecisionTarget", I2), <<"LATEST">>),
      NewMetricSpec(Metric("PrecisionMicro", NoTarget), <<"MAX", "MINMAX">>),
      NewMetricSpec(Metric("RocAucTarget", I1), <<"LATEST">>),
      NewMetricSpec(Metric("MSEMacro", NoTarget), <<"MEAN">>) }

\* models: the attributes the object has (attrs), their values, and what predict
\* and predict_proba return.  With classes_, with classes, with neither, predicting
\* a probability of 2.0, and with both attributes holding different lists
Model(attrs, classes_, classes, label_predictions, prob_predictions) ==
    [attrs |-> attrs, classes_ |-> classes_, classes |-> classes,
     label_predictions |-> label_predictions, prob_predictions |-> prob_predictions]

WithClasses_ ==
    Model({"classes_"}, Names01, <<>>, Arr1("int", <<0, 1>>), Arr1("float", <<0, 1>>))

WithClasses ==
    Model({"classes"}, <<>>, Names01, Arr1("int", <<1, 1>>), Arr2("float", OneHot01))

WithoutClasses == Model({}, <<>>, <<>>, Arr1("int", <<0, 1>>), Arr1("float", <<0, 1>>))

OutOfRange ==
    Model({"classes_"}, Names01, <<>>, Arr1("int", <<0, 1>>), Arr1("float", <<2, 0>>))

WithBoth ==
    Model({"classes_", "classes"}, Names01, <<I1, I0>>,
          Arr1("int", <<0, 1>>), Arr1("float", <<0, 1>>))

Truth1D == Arr1("int", <<0, 1>>)

Truth2D == Arr2("int", << <<0>>, <<1>> >>)

\* what add_model_evaluation is called with: [model, y_true, column_names]
ModelCall(model, y_true, column_names) ==
    [model |-> model, y_true |-> y_true, column_names |-> column_names]

ModelCalls ==
    << ModelCall(WithClasses_, Truth1D, NoNames),
       ModelCall(WithClasses, Truth1D, NoNames),
       ModelCall(WithClasses, Truth2D, NoNames),
       ModelCall(WithoutClasses, Truth1D, NoNames),
       ModelCall(WithoutClasses, Truth1D, GivenNames(Names01)),
       ModelCall(OutOfRange, Truth1D, NoNames),
       ModelCall(WithBoth, Truth1D, NoNames),
       ModelCall(WithClasses_, Truth1D, GivenNames(<<>>)) >>

\* what add_metric is called with: metric keys (members, strings in any case and
\* with whitespace around, unknown names, a member of the other enum), reducers
\* (the default of the signature first) and constructor options
MetricKeys ==
    << EnumMember("MetricEnum", "PRECISION_TARGET"),
       StrKey(<<"p", "r", "e", "c", "i", "s", "i", "o", "n", "_", "t", "a", "r", "g", "e", "t">>),
       StrKey(<<" ", "P", "r", "e", "c", "i", "s", "i", "o", "n", "_", "M", "i", "c", "r", "o", "\n">>),
       StrKey(<<"R", "O", "C", "_", "A", "U", "C", "_", "T", "A", "R", "G", "E", "T">>),
       StrKey(<<"m", "s", "e", "_", "m", "a", "c", "r", "o", " ">>),
       StrKey(<<"m", "s", "e", " ", "m", "a", "c", "r", "o">>),
       StrKey(<<"m", "e", "d", "i", "a", "n">>),
       EnumMember("ReducerEnum", "LATEST") >>

DefaultReducers == <<EnumMember("ReducerEnum", "LATEST")>>

ReducerArgs ==
    << DefaultReducers,
       <<StrKey(<<"M", "i", "n", "M", "a", "x">>), StrKey(<<"l", "A", "t", "E", "s", "t">>)>>,
       <<StrKey(<<" ", "m", "e", "a", "n", " ">>)>>,
       <<EnumMember("ReducerEnum", "MEAN"), EnumMember("ReducerEnum", "MIN")>>,
       <<StrKey(<<"m", "a", "x">>), StrKey(<<"m", "e", "d", "i", "a", "n">>)>>,
       <<EnumMember("MetricEnum", "ACCURACY")>> >>

KwargsPool == << EmptyDict, "target_name" :> I1, "class_name" :> I1 >>

(***************************************************************************)
(* The state.  lists[BUILDER] is the list object the EvaluatorBuilder      *)
(* keeps as _metric_specs.  evaluators[e] names the list object the e-th   *)
(* MetricEvaluator keeps as _metric_specs: build() hands the builder's     *)
(* list to MetricEvaluator.__init__, which stores that list, not a copy.   *)
(* call is the last call made: its name, its target (the evaluator, or the *)
(* position of the spec in the list), the exception it raised and what it  *)
(* returned.                                                               *)
(***************************************************************************)
BUILDER == 1

Call(op, tgt, err) ==
    [op |-> op, tgt |-> tgt, err |-> err,
     values |-> EmptyDict, steps |-> EmptyDict, figures |-> EmptyDict,
     predict |-> 0, predict_proba |-> 0, ret |-> "None", args |-> <<>>]

Init ==
    /\ lists = << <<>> >>
    /\ evaluators = <<>>
    /\ call = Call("init", 0, "none")

\* EvaluatorBuilder.add_metric: a new MetricSpec at the end of the builder's list
BuilderAddMetric(spec) ==
    /\ Len(lists[BUILDER]) < MaxSpecs
    /\ lists' = [lists EXCEPT ![BUILDER] = Append(@, spec)]
    /\ call' = [Call("add_metric", 0, "none") EXCEPT !.ret = "self"]
    /\ UNCHANGED evaluators

\* EvaluatorBuilder.build, that is MetricEvaluator.__init__ on the builder's list:
\* keeps the list, then validates it
BuildUpTo(max) ==
    /\ Len(evaluators) < max
    /\ LET err == validate_metric_specs(lists[BUILDER])
       IN  /\ evaluators' = IF err = "none" THEN Append(evaluators, BUILDER) ELSE evaluators
           /\ call' = Call("build", 0, err)
    /\ UNCHANGED lists

Build == BuildUpTo(MaxEvals)

SpecsOf(e) == lists[evaluators[e]]

Room(specs, metric_type) ==
    \A i \in DOMAIN specs :
        MetricType(specs[i].metric) = metric_type => Len(specs[i].history) < MaxHist

AddEvaluation(op, e, r) ==
    /\ lists' = [lists EXCEPT ![evaluators[e]] = r.specs]
    /\ call' = Call(op, e, r.err)
    /\ UNCHANGED evaluators

AddLabelEvaluation(e, batch) ==
    /\ Room(SpecsOf(e), "labels")
    /\ AddEvaluation("add_label_evaluation", e, add_label_evaluation(SpecsOf(e), batch))

AddProbEvaluation(e, batch) ==
    /\ Room(SpecsOf(e), "probs")
    /\ AddEvaluation("add_prob_evaluation", e, add_prob_evaluation(SpecsOf(e), batch))

AddRegressionEvaluation(e, batch) ==
    /\ Room(SpecsOf(e), "scores")
    /\ AddEvaluation("add_regression_evaluation", e, add_regression_evaluation(SpecsOf(e), batch))

AddModelEvaluation(e, model, y_true, column_names) ==
    /\ \A i \in DOMAIN SpecsOf(e) : Len(SpecsOf(e)[i].history) < MaxHist
    /\ LET Returning(r) ==
               /\ lists' = [lists EXCEPT ![evaluators[e]] = r.specs]
               /\ call' = [Call("add_model_evaluation", e, r.err) EXCEPT
                              !.predict = r.predict, !.predict_proba = r.predict_proba]
       IN  Returning(add_model_evaluation(SpecsOf(e), model, y_true, column_names))
    /\ UNCHANGED evaluators

GetResults(e) ==
    /\ LET r == get_results(SpecsOf(e))
       IN  call' = [Call("get_results", e, r.err) EXCEPT
                       !.values = r.values, !.steps = r.steps, !.figures = r.figures]
    /\ UNCHANGED <<lists, evaluators>>

\* MetricSpec.compute called on the i-th spec of the builder's list
SpecCompute(i, batch) ==
    /\ Len(lists[BUILDER][i].history) < MaxHist
    /\ LET Returning(r) ==
               /\ lists' = [lists EXCEPT ![BUILDER][i] = r.spec]
               /\ call' = Call("compute", i, r.err)
       IN  Returning(SpecComputeOn(lists[BUILDER][i], batch))
    /\ UNCHANGED evaluators

\* a query that drops the newest result of the history it reads
GetReducedValuesConsuming(i) ==
    /\ LET r == get_reduced_values(lists[BUILDER][i])
       IN  call' = [Call("get_reduced_values", i, r.err) EXCEPT !.values = r.out]
    /\ lists' = [lists EXCEPT ![BUILDER][i].history = SubSeq(@, 1, Len(@) - 1)]
    /\ UNCHANGED evaluators

GetReducedValues(i) ==
    /\ LET r == get_reduced_values(lists[BUILDER][i])
       IN  call' = [Call("get_reduced_values", i, r.err) EXCEPT !.values = r.out]
    /\ UNCHANGED <<lists, evaluators>>

ClearHistory(i) ==
    /\ lists' = [lists EXCEPT ![BUILDER][i] = clear_history(@)]
    /\ call' = Call("clear_history", i, "none")
    /\ UNCHANGED evaluators

Next ==
    \/ \E spec \in SpecPool : BuilderAddMetric(spec)
    \/ Build
    \/ \E e \in DOMAIN evaluators, k \in DOMAIN LabelInputs : AddLabelEvaluation(e, LabelInputs[k])
    \/ \E e \in DOMAIN evaluators, k \in DOMAIN ProbInputs : AddProbEvaluation(e, ProbInputs[k])
    \/ \E e \in DOMAIN evaluators, k \in DOMAIN RegressionInputs :
          AddRegressionEvaluation(e, RegressionInputs[k])
    \/ \E e \in DOMAIN evaluators, k \in DOMAIN ModelCalls :
          AddModelEvaluation(e, ModelCalls[k].model, ModelCalls[k].y_true,
                             ModelCalls[k].column_names)
    \/ \E e \in DOMAIN evaluators : GetResults(e)
    \/ \E i \in DOMAIN lists[BUILDER] :
          \E k \in DOMAIN ComputeInputs(MetricType(lists[BUILDER][i].metric)) :
              SpecCompute(i, ComputeInputs(MetricType(lists[BUILDER][i].metric))[k])
    \/ \E i \in DOMAIN lists[BUILDER] : GetReducedValues(i)
    \/ \E i \in DOMAIN lists[BUILDER] : ClearHistory(i)

Spec == Init /\ [][Next]_vars

(***************************************************************************)
(* The builder alone: add_metric called with keys, reducers and options.   *)
(***************************************************************************)
AddMetric(metric, reducers, kwargs) ==
    /\ Len(lists[BUILDER]) < MaxSpecs
    /\ LET r == add_metric(lists[BUILDER], metric, reducers, kwargs)
       IN  /\ lists' = [lists EXCEPT ![BUILDER] = r.specs]
           /\ call' = [Call("add_metric", 0, r.err) EXCEPT !.ret = r.ret]
    /\ UNCHANGED evaluators

NextBuilder ==
    \E m \in DOMAIN MetricKeys, r \in DOMAIN ReducerArgs, k \in DOMAIN KwargsPool :
        AddMetric(MetricKeys[m], ReducerArgs[r], KwargsPool[k])

SpecBuilder == Init /\ [][NextBuilder]_vars

(***************************************************************************)
(* A spec and a caller that changes the lists the spec returns.            *)
(* get_results_history returns self.__history, the list object of the spec *)
(* itself; get_values_history returns a list built by the call.            *)
(***************************************************************************)
ListMutations == {"pop", "reverse", "append"}

\* list.pop() / list.reverse() / list.append(list[0]) on a non-empty list
Mutated(list, mutation) ==
    CASE mutation = "pop" -> SubSeq(list, 1, Len(list) - 1)
      [] mutation = "reverse" -> [k \in DOMAIN list |-> list[Len(list) + 1 - k]]
      [] mutation = "append" -> Append(list, list[1])

\* view = spec.get_results_history(); view.<mutation>(): view is the history
MutateResultsHistory(i, mutation) ==
    /\ lists[BUILDER][i].history # <<>>
    /\ mutation = "append" => Len(lists[BUILDER][i].history) < MaxHist
    /\ lists' = [lists EXCEPT ![BUILDER][i].history = Mutated(get_results_history(lists[BUILDER][i]), mutation)]
    /\ call' = Call("get_results_history", i, "none")
    /\ UNCHANGED evaluators

\* view = spec.get_values_history(); view.<mutation>(): view is a new list
MutateValuesHistory(i, mutation) ==
    /\ lists[BUILDER][i].history # <<>>
    /\ Mutated(get_values_history(lists[BUILDER][i]), mutation) # <<>> \/ mutation = "pop"
    /\ call' = Call("get_values_history", i, "none")
    /\ UNCHANGED <<lists, evaluators>>

\* the specs of this scenario; a spec is computed at most MaxHist times
ViewPool ==
    { NewMetricSpec(Metric("PrecisionMicro", NoTarget), <<"MAX", "MINMAX">>),
      NewMetricSpec(Metric("RocAucTarget", I1), <<"LATEST">>) }

NextViews ==
    \/ \E spec \in ViewPool : BuilderAddMetric(spec)
    \/ \E i \in DOMAIN lists[BUILDER] :
          \E k \in DOMAIN ComputeInputs(MetricType(lists[BUILDER][i].metric)) :
              /\ Len(lists[BUILDER][i].inputs) < MaxHist
              /\ SpecCompute(i, ComputeInputs(MetricType(lists[BUILDER][i].metric))[k])
    \/ \E i \in DOMAIN lists[BUILDER] : GetReducedValues(i)
    \/ \E i \in DOMAIN lists[BUILDER], mutation \in ListMutations : MutateResultsHistory(i, mutation)
    \/ \E i \in DOMAIN lists[BUILDER], mutation \in ListMutations : MutateValuesHistory(i, mutation)

SpecViews == Init /\ [][NextViews]_vars

(***************************************************************************)
(* Metrics computed by a caller of MetricSpec.compute, who passes          *)
(* column_names of any length: nothing stands between the caller and the   *)
(* compute of the metric.                                                  *)
(***************************************************************************)
StandalonePool ==
    { NewMetricSpec(Metric("PrecisionMacro", NoTarget), <<"LATEST">>),
      NewMetricSpec(Metric("PrecisionMicro", NoTarget), <<"LATEST">>),
      NewMetricSpec(Metric("PrecisionTarget", I1), <<"LATEST">>) }

\* label batches of two columns with two, one, one and three column names
StandaloneInputs ==
    << BL1,
       BNames,
       Batch(Arr2("int", OneHot01), Arr2("int", << <<0, 1>>, <<0, 1>> >>), <<I0>>),
       Batch(Arr2("int", OneHot01), Arr2("int", OneHot01), <<I0, I1, I2>>) >>

NextStandalone ==
    \/ \E spec \in StandalonePool : BuilderAddMetric(spec)
    \/ \E i \in DOMAIN lists[BUILDER], k \in DOMAIN StandaloneInputs :
          SpecCompute(i, StandaloneInputs[k])

SpecStandalone == Init /\ [][NextStandalone]_vars

(***************************************************************************)
(* The label metrics of micro and macro scope, each computed once on a     *)
(* pair of 0/1 matrices of one shape, with one column name per column.     *)
(***************************************************************************)
MaxRows == 2
MaxCols == 2

LabelMetricPool ==
    { NewMetricSpec(Metric(cls, NoTarget), <<"LATEST">>) :
          cls \in {"PrecisionMicro", "RecallMicro", "F1ScoreMicro",
                   "PrecisionMacro", "RecallMacro", "F1ScoreMacro"} }

BinaryMatrices(rows, cols) == [1..rows -> [1..cols -> {0, 1}]]

NextLabelMetrics ==
    \/ \E spec \in LabelMetricPool : lists[BUILDER] = <<>> /\ BuilderAddMetric(spec)
    \/ \E rows \in 1..MaxRows, cols \in 1..MaxCols :
          \E true, pred \in BinaryMatrices(rows, cols) :
              /\ lists[BUILDER] # <<>>
              /\ lists[BUILDER][1].inputs = <<>>
              /\ SpecCompute(1, Batch(Arr2("int", true), Arr2("int", pred),
                                      RangeNames(Arr2("int", true))))

SpecLabelMetrics == Init /\ [][NextLabelMetrics]_vars

(***************************************************************************)
(* Metric.compute called on a metric object, outside any MetricSpec: the   *)
(* call keeps its arguments and the MetricResult it returned.              *)
(***************************************************************************)
MetricComputeCall(metric, batch) ==
    /\ LET Returning(r) ==
               call' = [Call("Metric.compute", 0, r.err) EXCEPT
                           !.args = <<metric, batch>>,
                           !.ret = IF r.err # "none" THEN "None"
                                   ELSE MetricResult(metric, r.value) @@
                                        ("metadata" :> IF "metadata" \in DOMAIN r
                                                       THEN r.metadata ELSE EmptyDict)]
       IN  Returning(MetricCompute(metric, batch.y_true, batch.y_pred, batch.column_names))
    /\ UNCHANGED <<lists, evaluators>>

\* regression arrays of whole-numbered floats
RegressionCells == {0, 1, 2}

NextRegression ==
    /\ call.op = "init"
    /\ \E cls \in {"MSEMacro", "RMSEMacro"}, rows \in 1..MaxRows, cols \in 1..MaxCols :
           \E true, pred \in [1..rows -> [1..cols -> RegressionCells]] :
               MetricComputeCall(Metric(cls, NoTarget),
                                 Batch(Arr2("float", true), Arr2("float", pred),
                                       RangeNames(Arr2("float", true))))

SpecRegression == Init /\ [][NextRegression]_vars

\* a series of n samples in the second of two columns
MaxSamples == 31
MaxCap == 23

SeriesBatch(n) ==
    Batch(Arr2("float", [r \in 1..n |-> <<0, r % 5>>]),
          Arr2("float", [r \in 1..n |-> <<1, (r * r) % 3>>]),
          <<StrName("x"), StrName("y")>>)

NextSeries ==
    /\ call.op = "init"
    /\ \E cls \in {"MSETarget", "RMSETarget"}, n \in 1..MaxSamples,
          cap \in (0..MaxCap) \cup {DefaultSeriesLength} :
           MetricComputeCall(SeriesMetric(cls, StrName("y"), cap), SeriesBatch(n))

SpecSeries == Init /\ [][NextSeries]_vars

(***************************************************************************)
(* What the claims speak of.                                               *)
(***************************************************************************)
TheSpecs == lists[BUILDER]

History(i) == lists[BUILDER][i].history

\* the well-formedness rules of a batch, as the documentation states them
TwoDimSameShape(b) ==
    /\ b.y_true.ndim = 2 /\ b.y_pred.ndim = 2
    /\ Len(b.y_true.data) = Len(b.y_pred.data)
    /\ \A r \in DOMAIN b.y_true.data : Len(b.y_true.data[r]) = Len(b.y_pred.data[r])
    /\ \A r \in DOMAIN b.y_pred.data : Len(b.column_names) = Len(b.y_pred.data[r])

Probabilities(a) == \A r \in DOMAIN a.data : \A c \in DOMAIN a.data[r] : 0 <= a.data[r][c] /\ a.data[r][c] <= 1

ValidFor(metric_type, b) ==
    /\ TwoDimSameShape(b)
    /\ metric_type = "labels" => b.y_true.dtype \in {"int", "str"} /\ b.y_pred.dtype \in {"int", "str"}
    /\ metric_type = "probs" =>
           b.y_true.dtype \in {"int", "str"} /\ b.y_pred.dtype = "float" /\ Probabilities(b.y_pred)

\* the malformed batches the documentation lists
MalformedFor(metric_type, b) ==
    \/ ~TwoDimSameShape(b)
    \/ metric_type = "labels" /\ (b.y_true.dtype = "float" \/ b.y_pred.dtype = "float")
    \/ metric_type = "probs" /\ (b.y_pred.dtype # "float" \/ ~Probabilities(b.y_pred))

\* the step is a call of the add_*_evaluation method for metric_type, on batch b
AddStep(metric_type, e, b) ==
    CASE metric_type = "labels" -> call'.op = "add_label_evaluation" /\ AddLabelEvaluation(e, b)
      [] metric_type = "probs" -> call'.op = "add_prob_evaluation" /\ AddProbEvaluation(e, b)
      [] metric_type = "scores" -> call'.op = "add_regression_evaluation" /\ AddRegressionEvaluation(e, b)

InputsOf(metric_type) ==
    CASE metric_type = "labels" -> LabelInputs
      [] metric_type = "probs" -> ProbInputs
      [] metric_type = "scores" -> RegressionInputs

MetricTypes == {"labels", "probs", "scores"}

HasType(specs, metric_type) == \E i \in DOMAIN specs : MetricType(specs[i].metric) = metric_type

\* the history of spec i is one entry longer after the step, the old entries kept
OneAppended(i) ==
    /\ Len(lists'[BUILDER][i].history) = Len(History(i)) + 1
    /\ SubSeq(lists'[BUILDER][i].history, 1, Len(History(i))) = History(i)

Untouched(i) == lists'[BUILDER][i] = lists[BUILDER][i]

ComputeRaises(spec, b) == MetricCompute(spec.metric, b.y_true, b.y_pred, b.column_names).err # "none"

(***************************************************************************)
(* C1 as stated: for every valid batch, add_label_evaluation /             *)
(* add_prob_evaluation / add_regression_evaluation returns normally,       *)
(* appends exactly one result to the history of every spec of the matching *)
(* kind and leaves the history of every other spec unchanged.              *)
(***************************************************************************)
C1_ValidBatchAlwaysAppends ==
    [][\A t \in MetricTypes : \A e \in DOMAIN evaluators : \A k \in DOMAIN InputsOf(t) :
          (AddStep(t, e, InputsOf(t)[k]) /\ ValidFor(t, InputsOf(t)[k])) =>
              /\ call'.err = "none"
              /\ \A i \in DOMAIN TheSpecs :
                     IF MetricType(TheSpecs[i].metric) = t THEN OneAppended(i) ELSE Untouched(i)]_vars

(***************************************************************************)
(* C1 amended: for every valid batch the call passes validation and raises *)
(* only if the compute of a matching spec raises (a target-scoped spec     *)
(* whose target_name is not in column_names); when it returns normally it  *)
(* has appended exactly one result to the history of every spec of the     *)
(* matching kind; in both cases the specs of another kind are unchanged.   *)
(***************************************************************************)
C1_ValidBatchAppendsUnlessComputeRaises ==
    [][\A t \in MetricTypes : \A e \in DOMAIN evaluators : \A k \in DOMAIN InputsOf(t) :
          (AddStep(t, e, InputsOf(t)[k]) /\ ValidFor(t, InputsOf(t)[k])) =>
              /\ call'.err # "none" <=>
                     \E i \in DOMAIN TheSpecs :
                         MetricType(TheSpecs[i].metric) = t /\ ComputeRaises(TheSpecs[i], InputsOf(t)[k])
              /\ call'.err = "none" =>
                     \A i \in DOMAIN TheSpecs : MetricType(TheSpecs[i].metric) = t => OneAppended(i)
              /\ \A i \in DOMAIN TheSpecs : MetricType(TheSpecs[i].metric) # t => Untouched(i)]_vars

\* a valid label batch was added to an evaluator that holds specs of two kinds
C1_Witness ==
    /\ call.op = "add_label_evaluation" /\ call.err = "none"
    /\ \E i, j \in DOMAIN TheSpecs :
           /\ MetricType(TheSpecs[i].metric) = "labels" /\ Len(History(i)) = 1
           /\ MetricType(TheSpecs[j].metric) # "labels" /\ Len(History(j)) = 0

(***************************************************************************)
(* C2: for every malformed batch (an array that is not 2-D, two shapes     *)
(* that differ, a column_names of the wrong length, a float array for      *)
(* labels, a non-float y_pred or a probability outside [0, 1] for          *)
(* probabilities) the add_*_evaluation call raises, and every spec of the  *)
(* evaluator is as it was before the call.                                 *)
(***************************************************************************)
C2_MalformedBatchRaisesUntouched ==
    [][\A t \in MetricTypes : \A e \in DOMAIN evaluators : \A k \in DOMAIN InputsOf(t) :
          (AddStep(t, e, InputsOf(t)[k]) /\ MalformedFor(t, InputsOf(t)[k])) =>
              call'.err = "ValueError" /\ lists' = lists]_vars

\* a probability batch was rejected by an evaluator whose probability spec has a history
C2_Witness ==
    /\ call.op = "add_prob_evaluation" /\ call.err = "ValueError"
    /\ \E i \in DOMAIN TheSpecs : MetricType(TheSpecs[i].metric) = "probs" /\ Len(History(i)) = 1

\* two specs of the list have one id (the id is the metric's id)
DuplicateIds(specs) ==
    \E i, j \in DOMAIN specs : i # j /\ MetricId(specs[i].metric) = MetricId(specs[j].metric)

(***************************************************************************)
(* C3: constructing an evaluator from a list in which two specs share an   *)
(* id always raises ValueError and constructs nothing, also when the two   *)
(* specs are of one metric and differ only in their reducers.              *)
(***************************************************************************)
C3_DuplicateIdsRejectedAtConstruction ==
    [][(call'.op = "build" /\ Build /\ DuplicateIds(TheSpecs)) =>
           call'.err = "ValueError" /\ evaluators' = evaluators]_vars

\* a build was refused for two specs of one metric that differ only in reducers
C3_Witness ==
    /\ call.op = "build" /\ call.err = "ValueError" /\ evaluators = <<>>
    /\ \E i, j \in DOMAIN TheSpecs :
           /\ i # j
           /\ TheSpecs[i].metric = TheSpecs[j].metric
           /\ TheSpecs[i].reducers # TheSpecs[j].reducers

(***************************************************************************)
(* C4 as stated: in every reachable state, no two specs in an evaluator's  *)
(* spec list share an id, also after further add_metric calls on the       *)
(* builder that built the evaluator.                                       *)
(***************************************************************************)
C4_EvaluatorIdsStayUnique ==
    \A e \in DOMAIN evaluators : ~DuplicateIds(SpecsOf(e))

\* the value a spec's metric gives for the k-th batch of its successful computes
ValueOfInput(spec, k) ==
    MetricCompute(spec.metric, spec.inputs[k].y_true, spec.inputs[k].y_pred,
                  spec.inputs[k].column_names).value

ValuesInCallOrder(spec) == [k \in 1..Len(spec.inputs) |-> ValueOfInput(spec, k)]

(***************************************************************************)
(* C5: after N successful compute calls on a spec its history holds        *)
(* exactly N entries, the i-th being the result of the i-th call's inputs, *)
(* and every steps list reported by get_results is in that call order.     *)
(***************************************************************************)
C5_HistoryInCallOrder ==
    /\ \A i \in DOMAIN TheSpecs :
           /\ Len(History(i)) = Len(TheSpecs[i].inputs)
           /\ \A k \in DOMAIN History(i) :
                  History(i)[k] = MetricResult(TheSpecs[i].metric, ValueOfInput(TheSpecs[i], k))
    /\ (call.op = "get_results" /\ call.err = "none") =>
           \A key \in DOMAIN call.steps :
               \E i \in DOMAIN SpecsOf(call.tgt) :
                   /\ key = MetricId(SpecsOf(call.tgt)[i].metric) \o "_steps"
                   /\ call.steps[key] = ValuesInCallOrder(SpecsOf(call.tgt)[i])

\* get_results reported the steps of a spec computed twice, with two different values
C5_Witness ==
    /\ call.op = "get_results" /\ call.err = "none"
    /\ \E i \in DOMAIN SpecsOf(call.tgt) :
           /\ Len(History(i)) = 2
           /\ History(i)[1].value # History(i)[2].value
           /\ call.steps[MetricId(TheSpecs[i].metric) \o "_steps"] =
                  <<History(i)[1].value, History(i)[2].value>>

\* the lower-case names of the reducers, as the keys spell them
KeySuffix ==
    [LATEST |-> "latest", MEAN |-> "mean", MAX |-> "max", MIN |-> "min", MINMAX |-> "minmax"]

IsLargest(vals, k) == \A j \in DOMAIN vals : ~RLess(vals[k], vals[j])

IsSmallest(vals, k) == \A j \in DOMAIN vals : ~RLess(vals[j], vals[k])

\* v is what the documentation says the reducer gives for a non-empty vals
ReducedAsDocumented(reducer, vals, v) ==
    CASE reducer = "LATEST" -> v = vals[Len(vals)]
      [] reducer = "MAX" -> \E k \in DOMAIN vals : IsLargest(vals, k) /\ v = vals[k]
      [] reducer = "MIN" -> \E k \in DOMAIN vals : IsSmallest(vals, k) /\ v = vals[k]
      [] reducer = "MINMAX" ->
             \E a, b \in DOMAIN vals :
                 IsLargest(vals, a) /\ IsSmallest(vals, b) /\ v = RSub(vals[a], vals[b])
      [] reducer = "MEAN" -> v = RDivInt(RSum(vals), Len(vals))

ValuesOf(i) == [k \in DOMAIN History(i) |-> History(i)[k].value]

(***************************************************************************)
(* C6: for a spec with a non-empty history get_reduced_values returns the  *)
(* dict whose keys are "<spec.id>_<reducer name in lower case>", one per   *)
(* reducer; latest is the last value, max and min the largest and the      *)
(* smallest, minmax the largest minus the smallest, mean the mean.         *)
(***************************************************************************)
C6_ReducedValuesAsDocumented ==
    (call.op = "get_reduced_values" /\ History(call.tgt) # <<>>) =>
        LET spec == TheSpecs[call.tgt]
            KeyOf(k) == MetricId(spec.metric) \o "_" \o KeySuffix[spec.reducers[k]]
        IN  /\ call.err = "none"
            /\ DOMAIN call.values = {KeyOf(k) : k \in DOMAIN spec.reducers}
            /\ \A k \in DOMAIN spec.reducers :
                   ReducedAsDocumented(spec.reducers[k], ValuesOf(call.tgt), call.values[KeyOf(k)])

\* the reduced values of a history of two different values were returned
C6_Witness ==
    /\ call.op = "get_reduced_values" /\ call.err = "none"
    /\ Len(History(call.tgt)) = 2
    /\ History(call.tgt)[1].value # History(call.tgt)[2].value
    /\ DOMAIN call.values # {}

C8_EmptyHistoryRaises ==
    (/\ call.op = "get_reduced_values"
     /\ History(call.tgt) = <<>>
     /\ \E k \in DOMAIN TheSpecs[call.tgt].reducers :
            TheSpecs[call.tgt].reducers[k] \in {"LATEST", "MAX", "MIN", "MINMAX"})
        => call.err # "none"

\* get_reduced_values raised on an empty history whose first reducer, mean, does not raise
C8_Witness ==
    /\ call.op = "get_reduced_values" /\ call.err = "ValueError"
    /\ History(call.tgt) = <<>>
    /\ TheSpecs[call.tgt].reducers = <<"MEAN", "MIN">>

(***************************************************************************)
(* C9 as stated: when every spec of the evaluator has a history,           *)
(* get_results returns normally; its values are the union of every spec's  *)
(* reduced values with no key overwritten, and its steps have exactly one  *)
(* key "<id>_steps" per spec, mapped to that spec's value history.         *)
(***************************************************************************)
C9_ResultsCoverEverySpec ==
    (call.op = "get_results" /\ \A i \in DOMAIN SpecsOf(call.tgt) : History(i) # <<>>) =>
        LET specs == SpecsOf(call.tgt)
        IN  /\ call.err = "none"
            /\ DOMAIN call.values = UNION {DOMAIN get_reduced_values(specs[i]).out : i \in DOMAIN specs}
            /\ \A i \in DOMAIN specs : \A key \in DOMAIN get_reduced_values(specs[i]).out :
                   call.values[key] = get_reduced_values(specs[i]).out[key]
            /\ Cardinality(DOMAIN call.steps) = Len(specs)
            /\ \A i \in DOMAIN specs :
                   /\ (MetricId(specs[i].metric) \o "_steps") \in DOMAIN call.steps
                   /\ call.steps[MetricId(specs[i].metric) \o "_steps"] = ValuesOf(i)

CountOf(flag) == IF flag THEN 1 ELSE 0

(***************************************************************************)
(* C10 as stated: in one add_model_evaluation call predict_proba is        *)
(* invoked if and only if a probability spec is registered, and predict    *)
(* only for the label specs (if any) and the score specs (if any).         *)
(***************************************************************************)
C10_PredictProbaIffProbSpec ==
    call.op = "add_model_evaluation" =>
        LET specs == SpecsOf(call.tgt)
        IN  /\ call.predict_proba >= 1 <=> HasType(specs, "probs")
            /\ call.predict <= CountOf(HasType(specs, "labels")) + CountOf(HasType(specs, "scores"))

(***************************************************************************)
(* C10 amended: predict_proba is invoked only if a probability spec is     *)
(* registered, and exactly once when one is registered and the call        *)
(* returns normally (a call that raises before its probability block never *)
(* reaches predict_proba); predict is invoked only for the label specs (if *)
(* any) and the score specs (if any), once for each of the two kinds when  *)
(* the call returns normally.                                              *)
(***************************************************************************)
C10_PredictProbaOnlyForProbSpec ==
    call.op = "add_model_evaluation" =>
        LET specs == SpecsOf(call.tgt)
            calls == CountOf(HasType(specs, "labels")) + CountOf(HasType(specs, "scores"))
        IN  /\ call.predict_proba >= 1 => HasType(specs, "probs")
            /\ call.predict <= calls
            /\ call.err = "none" =>
                   /\ call.predict_proba = CountOf(HasType(specs, "probs"))
                   /\ call.predict = calls

\* a model was evaluated by an evaluator holding a label spec and a probability spec
C10_Witness ==
    /\ call.op = "add_model_evaluation" /\ call.err = "none"
    /\ HasType(SpecsOf(call.tgt), "labels") /\ HasType(SpecsOf(call.tgt), "probs")
    /\ call.predict = 1 /\ call.predict_proba = 1

\* the step is the k-th add_model_evaluation call of the model, on evaluator e
ModelStep(e, k) ==
    /\ call'.op = "add_model_evaluation"
    /\ AddModelEvaluation(e, ModelCalls[k].model, ModelCalls[k].y_true, ModelCalls[k].column_names)

Classification(i) == MetricType(TheSpecs[i].metric) \in {"labels", "probs"}

\* the column names the last compute of spec i was given, after the step
LastNames(i) == lists'[BUILDER][i].inputs[Len(lists'[BUILDER][i].inputs)].column_names

Grown(i) == Len(lists'[BUILDER][i].history) > Len(History(i))

\* the class list of a model: classes_ when the model has it, otherwise classes
ClassList(model) == IF "classes_" \in model.attrs THEN model.classes_ ELSE model.classes

NoClassList(model) == model.attrs \cap {"classes_", "classes"} = {}

(***************************************************************************)
(* C11 as stated: in add_model_evaluation with label or probability specs, *)
(* when column_names is omitted the column names are model.classes_ if the *)
(* model has it, otherwise model.classes, and ValueError is raised before  *)
(* any prediction and any change of a history when it has neither; when    *)
(* column_names is given it is used instead of the model's class list.     *)
(***************************************************************************)
C11_GivenNamesAlwaysUsed ==
    [][\A e \in DOMAIN evaluators : \A k \in DOMAIN ModelCalls :
          (ModelStep(e, k) /\ \E i \in DOMAIN TheSpecs : Classification(i)) =>
              LET model == ModelCalls[k].model
                  column_names == ModelCalls[k].column_names
              IN  IF column_names.given
                  THEN \A i \in DOMAIN TheSpecs :
                           (Classification(i) /\ Grown(i)) => LastNames(i) = column_names.names
                  ELSE IF NoClassList(model)
                  THEN /\ call'.err = "ValueError" /\ lists' = lists
                       /\ call'.predict = 0 /\ call'.predict_proba = 0
                  ELSE \A i \in DOMAIN TheSpecs :
                           (Classification(i) /\ Grown(i)) => LastNames(i) = ClassList(model)]_vars

(***************************************************************************)
(* C11 amended: as stated, but only a non-empty column_names is used       *)
(* instead of the model's class list; an empty column_names is treated as  *)
(* an omitted one.                                                         *)
(***************************************************************************)
C11_NonEmptyGivenNamesUsed ==
    [][\A e \in DOMAIN evaluators : \A k \in DOMAIN ModelCalls :
          (ModelStep(e, k) /\ \E i \in DOMAIN TheSpecs : Classification(i)) =>
              LET model == ModelCalls[k].model
                  column_names == ModelCalls[k].column_names
              IN  IF column_names.given /\ column_names.names # <<>>
                  THEN \A i \in DOMAIN TheSpecs :
                           (Classification(i) /\ Grown(i)) => LastNames(i) = column_names.names
                  ELSE IF NoClassList(model)
                  THEN /\ call'.err = "ValueError" /\ lists' = lists
                       /\ call'.predict = 0 /\ call'.predict_proba = 0
                  ELSE \A i \in DOMAIN TheSpecs :
                           (Classification(i) /\ Grown(i)) => LastNames(i) = ClassList(model)]_vars

\* a model was evaluated for a label spec and a probability spec, both computed
\* on the column names 0, 1
C11_Witness ==
    /\ call.op = "add_model_evaluation" /\ call.err = "none"
    /\ \E i, j \in DOMAIN TheSpecs :
           /\ MetricType(TheSpecs[i].metric) = "labels"
           /\ MetricType(TheSpecs[j].metric) = "probs"
           /\ Len(History(i)) = 1 /\ TheSpecs[i].inputs[1].column_names = Names01
           /\ Len(History(j)) = 1 /\ TheSpecs[j].inputs[1].column_names = Names01

\* the number of columns of the widened truth: one for a 1-D series
NTargets(y_true) == IF y_true.ndim = 1 THEN 1 ELSE Len(y_true.data[1])

IntegerRange(n) == [c \in 1..n |-> [ty |-> "int", v |-> c - 1]]

(***************************************************************************)
(* C12 as stated: in add_model_evaluation on an evaluator of score specs   *)
(* with column_names omitted, for a 1-D as for a 2-D y_true, the call      *)
(* appends one result to every score spec, computed on the column names    *)
(* 0..n_targets-1 of the widened truth.                                    *)
(***************************************************************************)
C12_RegressionNamesDefaultToRange ==
    [][\A e \in DOMAIN evaluators : \A k \in DOMAIN ModelCalls :
          (/\ ModelStep(e, k)
           /\ TheSpecs # <<>>
           /\ \A i \in DOMAIN TheSpecs : MetricType(TheSpecs[i].metric) = "scores"
           /\ ~ModelCalls[k].column_names.given) =>
              /\ call'.err = "none"
              /\ \A i \in DOMAIN TheSpecs :
                     /\ OneAppended(i)
                     /\ LastNames(i) = IntegerRange(NTargets(ModelCalls[k].y_true))]_vars

\* spec i is of the kind t and its compute raises on the batch b
RaisesAt(i, t, b) == MetricType(TheSpecs[i].metric) = t /\ ComputeRaises(TheSpecs[i], b)

ErrorOf(spec, b) == MetricCompute(spec.metric, b.y_true, b.y_pred, b.column_names).err

(***************************************************************************)
(* C13: when the compute of a matching spec raises during an               *)
(* add_*_evaluation call on a valid batch, the call raises that exception, *)
(* the raising spec and every spec after it in the list are left as they   *)
(* were, and a call that returns normally has computed every matching      *)
(* spec.                                                                   *)
(***************************************************************************)
C13_ComputeErrorAbortsCall ==
    [][\A t \in MetricTypes : \A e \in DOMAIN evaluators : \A k \in DOMAIN InputsOf(t) :
          (AddStep(t, e, InputsOf(t)[k]) /\ ValidFor(t, InputsOf(t)[k])) =>
              /\ \A i \in DOMAIN TheSpecs :
                     (/\ RaisesAt(i, t, InputsOf(t)[k])
                      /\ \A j \in 1..(i - 1) : ~RaisesAt(j, t, InputsOf(t)[k])) =>
                         /\ call'.err = ErrorOf(TheSpecs[i], InputsOf(t)[k])
                         /\ call'.err # "none"
                         /\ \A j \in i..Len(TheSpecs) : Untouched(j)
              /\ call'.err = "none" =>
                     \A i \in DOMAIN TheSpecs : MetricType(TheSpecs[i].metric) = t => Grown(i)]_vars

\* a label call raised on an evaluator whose first spec names a target that is no
\* column; the label spec after it was not computed
C13_Witness ==
    /\ call.op = "add_label_evaluation" /\ call.err = "ValueError"
    /\ Len(TheSpecs) = 2
    /\ TheSpecs[1].metric = Metric("PrecisionTarget", I2)
    /\ MetricType(TheSpecs[2].metric) = "labels"
    /\ History(1) = <<>> /\ History(2) = <<>>

\* every target a spec names is a class of the model, so that no compute raises
TargetsAmong(names) ==
    \A i \in DOMAIN TheSpecs :
        TheSpecs[i].metric.target_name = NoTarget
            \/ \E c \in DOMAIN names : names[c] = TheSpecs[i].metric.target_name

(***************************************************************************)
(* C14 as stated: when add_model_evaluation raises because the data fails  *)
(* the validation of a delegated evaluation (predict_proba returns a       *)
(* probability outside [0, 1]), no spec of any kind has a history longer   *)
(* than before the call.                                                   *)
(***************************************************************************)
C14_RejectedModelDataChangesNothing ==
    [][\A e \in DOMAIN evaluators : \A k \in DOMAIN ModelCalls :
          (/\ ModelStep(e, k)
           /\ call'.err = "ValueError"
           /\ HasType(TheSpecs, "probs")
           /\ ~Probabilities(ModelCalls[k].model.prob_predictions)
           /\ ~NoClassList(ModelCalls[k].model)
           /\ TargetsAmong(ClassList(ModelCalls[k].model))) =>
              \A i \in DOMAIN TheSpecs : ~Grown(i)]_vars

\* two characters that are one letter, in either case
SameLetter(a, b) ==
    a = b \/ \E k \in DOMAIN LowerCase : {a, b} = {LowerCase[k], UpperCase[k]}

\* chars spell the name in some mix of cases, with whitespace before and after
SpellsName(chars, name) ==
    \E before \in 0..Len(chars) :
        /\ before + Len(name) <= Len(chars)
        /\ \A k \in 1..before : chars[k] \in Whitespace
        /\ \A k \in (before + Len(name) + 1)..Len(chars) : chars[k] \in Whitespace
        /\ \A k \in 1..Len(name) : SameLetter(chars[before + k], name[k])

\* the names of the members of enum_class that the key stands for
NamesFor(key, enum_class) ==
    IF key.kind = "enum"
    THEN IF key.cls = enum_class THEN {key.name} ELSE {}
    ELSE {EnumMembers(enum_class)[k].name :
              k \in {x \in DOMAIN EnumMembers(enum_class) :
                         SpellsName(key.chars, EnumMembers(enum_class)[x].chars)}}

\* what the documentation makes of each metric key and of each reducers argument
MetricNamesOfKeys == [m \in DOMAIN MetricKeys |-> NamesFor(MetricKeys[m], "MetricEnum")]

ReducerNamesOfArgs ==
    [r \in DOMAIN ReducerArgs |->
        [x \in DOMAIN ReducerArgs[r] |-> NamesFor(ReducerArgs[r][x], "ReducerEnum")]]

TheOne(names) == CHOOSE n \in names : TRUE

(***************************************************************************)
(* C15: add_metric takes metric and reducer keys as enum members or as     *)
(* strings matched case-insensitively after stripping whitespace, appends  *)
(* exactly one MetricSpec (reducers: latest only by default) at the end of *)
(* the builder's list and returns the builder; an unknown metric or        *)
(* reducer key raises ValueError, an unsupported constructor option raises *)
(* TypeError, and every failing call leaves the list unchanged.            *)
(***************************************************************************)
C15_AddMetricResolvesKeys ==
    [][\A m \in DOMAIN MetricKeys, r \in DOMAIN ReducerArgs, k \in DOMAIN KwargsPool :
          (call'.op = "add_metric" /\ AddMetric(MetricKeys[m], ReducerArgs[r], KwargsPool[k])) =>
              IF MetricNamesOfKeys[m] = {} \/ \E x \in DOMAIN ReducerArgs[r] : ReducerNamesOfArgs[r][x] = {}
              THEN call'.err = "ValueError" /\ lists' = lists
              ELSE IF DOMAIN KwargsPool[k] \ InitParams(MetricClassOf(TheOne(MetricNamesOfKeys[m]))) # {}
              THEN call'.err = "TypeError" /\ lists' = lists
              ELSE IF call'.err # "none" THEN lists' = lists
              ELSE /\ call'.ret = "self"
                   /\ Len(lists'[BUILDER]) = Len(TheSpecs) + 1
                   /\ SubSeq(lists'[BUILDER], 1, Len(TheSpecs)) = TheSpecs
                   /\ LET spec == lists'[BUILDER][Len(TheSpecs) + 1]
                      IN  /\ spec.metric.cls = MetricClassOf(TheOne(MetricNamesOfKeys[m]))
                          /\ spec.history = <<>>
                          /\ spec.reducers =
                                 [x \in DOMAIN ReducerArgs[r] |-> TheOne(ReducerNamesOfArgs[r][x])]
                          /\ ReducerArgs[r] = DefaultReducers => spec.reducers = <<"LATEST">>]_vars

\* two specs were added, the second one with the reducers "MinMax" and "lAtEst" on
\* the metric " Precision_Micro\n"
C15_Witness ==
    /\ call.op = "add_metric" /\ call.err = "none" /\ call.ret = "self"
    /\ Len(TheSpecs) = 2
    /\ TheSpecs[2].metric.cls = "PrecisionMicro"
    /\ TheSpecs[2].reducers = <<"MINMAX", "LATEST">>

(***************************************************************************)
(* C16 as stated: a caller that mutates a list returned by                 *)
(* get_results_history or get_values_history (appending, removing or       *)
(* reordering elements) does not change the spec's history.                *)
(***************************************************************************)
C16_ReturnedListsAreViews ==
    [][\A i \in DOMAIN TheSpecs : \A mutation \in ListMutations :
          (\/ call'.op = "get_results_history" /\ MutateResultsHistory(i, mutation)
           \/ call'.op = "get_values_history" /\ MutateValuesHistory(i, mutation)) =>
              lists'[BUILDER][i].history = History(i)]_vars

(***************************************************************************)
(* C17: a metric's id is "<name>_<scope>" for the micro- and macro-scoped   *)
(* variants, "<name>_<target_name>" for the target-scoped variants and      *)
(* "accuracy" for Accuracy; the id of a MetricSpec is the id of its metric, *)
(* whatever its reducers and its history are.                               *)
(***************************************************************************)
\* the ids written out, one per variant and target name
DocumentedIds ==
    << [metric |-> Metric("Accuracy", NoTarget), id |-> "accuracy"],
       [metric |-> Metric("PrecisionMicro", NoTarget), id |-> "precision_micro"],
       [metric |-> Metric("PrecisionMacro", NoTarget), id |-> "precision_macro"],
       [metric |-> Metric("PrecisionTarget", I1), id |-> "precision_1"],
       [metric |-> Metric("PrecisionTarget", I2), id |-> "precision_2"],
       [metric |-> Metric("PrecisionTarget", StrName("cat")), id |-> "precision_cat"],
       [metric |-> Metric("RecallMicro", NoTarget), id |-> "recall_micro"],
       [metric |-> Metric("RecallMacro", NoTarget), id |-> "recall_macro"],
       [metric |-> Metric("F1ScoreMicro", NoTarget), id |-> "f1_score_micro"],
       [metric |-> Metric("F1ScoreMacro", NoTarget), id |-> "f1_score_macro"],
       [metric |-> Metric("F1ScoreTarget", I1), id |-> "f1_score_1"],
       [metric |-> Metric("F1ScoreTarget", StrName("cat")), id |-> "f1_score_cat"],
       [metric |-> Metric("RocAucMacro", NoTarget), id |-> "roc_auc_macro"],
       [metric |-> Metric("RocAucTarget", I1), id |-> "roc_auc_1"],
       [metric |-> Metric("RocAucTarget", StrName("cat")), id |-> "roc_auc_cat"],
       [metric |-> Metric("MSEMacro", NoTarget), id |-> "mse_macro"],
       [metric |-> Metric("MSETarget", I0), id |-> "mse_0"],
       [metric |-> Metric("MSETarget", StrName("price")), id |-> "mse_price"],
       [metric |-> Metric("RMSEMacro", NoTarget), id |-> "rmse_macro"],
       [metric |-> Metric("RMSETarget", I0), id |-> "rmse_0"],
       [metric |-> Metric("RMSETarget", StrName("price")), id |-> "rmse_price"] >>

EveryVariantHasItsDocumentedId ==
    \A k \in DOMAIN DocumentedIds : MetricId(DocumentedIds[k].metric) = DocumentedIds[k].id

HasDocumentedId(spec) ==
    \E k \in DOMAIN DocumentedIds :
        DocumentedIds[k].metric = spec.metric /\ SpecId(spec) = DocumentedIds[k].id

Registered(e, P(_)) == \E i \in DOMAIN SpecsOf(e) : P(SpecsOf(e)[i].metric)

IsRocAuc(m) == MetricName(m) = "roc_auc"

IsAccuracy(m) == MetricName(m) = "accuracy" /\ MetricScope(m) = "micro"

IsTargetOrMacroScore(m) == MetricType(m) = "scores" /\ MetricScope(m) \in {"target", "macro"}

C18_FiguresIffCategoryRegistered ==
    (/\ call.op = "get_results" /\ call.err = "none"
     /\ \A i \in DOMAIN SpecsOf(call.tgt) : Len(SpecsOf(call.tgt)[i].history) >= 1) =>
        /\ "roc_auc_curves" \in DOMAIN call.figures <=> Registered(call.tgt, IsRocAuc)
        /\ "confusion_matrices" \in DOMAIN call.figures <=> Registered(call.tgt, IsAccuracy)
        /\ "regression_plots" \in DOMAIN call.figures <=>
               Registered(call.tgt, IsTargetOrMacroScore)
        /\ DOMAIN call.figures \subseteq {"roc_auc_curves", "confusion_matrices", "regression_plots"}

(***************************************************************************)
(* C19: a target-scoped metric whose target_name is not an element of      *)
(* column_names raises ValueError from compute; when the compute is        *)
(* reached through add_*_evaluation the call raises, with that ValueError  *)
(* when no earlier spec raised, and the history of the spec does not grow. *)
(***************************************************************************)
AbsentTarget(spec, b) ==
    /\ MetricScope(spec.metric) = "target"
    /\ \A c \in DOMAIN b.column_names : b.column_names[c] # spec.metric.target_name

C19_AbsentTargetRaises ==
    [][/\ \A i \in DOMAIN TheSpecs :
              \A k \in DOMAIN ComputeInputs(MetricType(TheSpecs[i].metric)) :
                  LET b == ComputeInputs(MetricType(TheSpecs[i].metric))[k]
                  IN  (call'.op = "compute" /\ SpecCompute(i, b) /\ AbsentTarget(TheSpecs[i], b)) =>
                          call'.err = "ValueError" /\ Untouched(i)
       /\ \A t \in MetricTypes : \A e \in DOMAIN evaluators : \A k \in DOMAIN InputsOf(t) :
              (AddStep(t, e, InputsOf(t)[k]) /\ ValidFor(t, InputsOf(t)[k])) =>
                  \A i \in DOMAIN TheSpecs :
                      (MetricType(TheSpecs[i].metric) = t /\ AbsentTarget(TheSpecs[i], InputsOf(t)[k])) =>
                          /\ call'.err # "none"
                          /\ (\A j \in 1..(i - 1) : ~RaisesAt(j, t, InputsOf(t)[k])) =>
                                 call'.err = "ValueError"
                          /\ Untouched(i)]_vars

\* a label call raised ValueError on an evaluator whose second spec names the
\* target 2, after the first spec, on target 1, took its result
C19_Witness ==
    /\ call.op = "add_label_evaluation" /\ call.err = "ValueError"
    /\ Len(TheSpecs) = 2
    /\ TheSpecs[1].metric = Metric("PrecisionTarget", I1)
    /\ TheSpecs[2].metric = Metric("PrecisionTarget", I2)
    /\ Len(History(1)) = 1 /\ History(2) = <<>>

(***************************************************************************)
(* C20 as stated: a compute called by itself, not through the evaluator,   *)
(* raises whenever len(column_names) differs from the number of columns of *)
(* y_pred, for the micro, macro and target variants; it returns no value   *)
(* and the spec takes no result.                                           *)
(***************************************************************************)
NamesDisagree(b) == Len(b.column_names) # Shape(b.y_pred)[2]

C20_StandaloneComputeChecksNames ==
    [][\A i \in DOMAIN TheSpecs : \A k \in DOMAIN StandaloneInputs :
          (/\ call'.op = "compute"
           /\ SpecCompute(i, StandaloneInputs[k])
           /\ NamesDisagree(StandaloneInputs[k])) =>
              call'.err # "none" /\ Untouched(i)]_vars

(***************************************************************************)
(* C21: on two 0/1 matrices of one shape PrecisionMicro, RecallMicro and   *)
(* F1ScoreMicro return TP/(TP+FP), TP/(TP+FN) and 2TP/(2TP+FP+FN), the     *)
(* counts taken over all cells together; they return 0.0 when the          *)
(* denominator is 0, never NaN, and they never raise.                      *)
(***************************************************************************)
CellsOf(b, columns) == {x \in (1..Len(b.y_true.data)) \X columns : TRUE}

\* the cells among `cells` where the prediction is p and the truth is t
NCells(b, cells, p, t) ==
    Cardinality({x \in cells : b.y_pred.data[x[1]][x[2]] = p /\ b.y_true.data[x[1]][x[2]] = t})

\* numerator and denominator of the metric named `name` over the cells
Fraction(name, b, cells) ==
    LET tp == NCells(b, cells, 1, 1)
        fp == NCells(b, cells, 1, 0)
        fn == NCells(b, cells, 0, 1)
    IN  CASE name = "precision" -> <<tp, tp + fp>>
          [] name = "recall" -> <<tp, tp + fn>>
          [] name = "f1_score" -> <<2 * tp, 2 * tp + fp + fn>>

\* value is the fraction, 0.0 when the denominator is 0
IsFraction(value, fraction) ==
    IF fraction[2] = 0 THEN value = <<0, 1>>
    ELSE value[2] # 0 /\ value[1] * fraction[2] = fraction[1] * value[2]

AllColumns(b) == 1..Len(b.column_names)

C21_MicroValuesPooled ==
    /\ call.op = "compute" => call.err = "none"
    /\ \A i \in DOMAIN TheSpecs : \A h \in DOMAIN History(i) :
           LET b == TheSpecs[i].inputs[h]
           IN  MetricScope(TheSpecs[i].metric) = "micro" =>
                   IsFraction(History(i)[h].value,
                              Fraction(MetricName(TheSpecs[i].metric), b, CellsOf(b, AllColumns(b))))

\* RecallMicro returned 0.0 on a batch with no positive truth and a positive
\* prediction
C21_Witness ==
    /\ call.op = "compute" /\ call.err = "none"
    /\ Len(TheSpecs) = 1 /\ TheSpecs[1].metric.cls = "RecallMicro"
    /\ Len(History(1)) = 1 /\ History(1)[1].value = <<0, 1>>
    /\ LET b == TheSpecs[1].inputs[1]
       IN  /\ NCells(b, CellsOf(b, AllColumns(b)), 1, 0) > 0
           /\ Fraction("recall", b, CellsOf(b, AllColumns(b)))[2] = 0

(***************************************************************************)
(* C22: on two 0/1 matrices of one shape, with as many column names as     *)
(* columns, the macro precision, recall and F1 are the arithmetic mean     *)
(* over all columns of the value of each column, computed from the counts  *)
(* of that column and taken as 0.0 when its denominator is 0.              *)
(***************************************************************************)
ColumnValue(name, b, c) ==
    LET fraction == Fraction(name, b, CellsOf(b, {c}))
    IN  IF fraction[2] = 0 THEN <<0, 1>> ELSE Rat(fraction[1], fraction[2])

MeanOverColumns(name, b) ==
    RDivInt(RSum([c \in 1..Len(b.column_names) |-> ColumnValue(name, b, c)]),
            Len(b.column_names))

C22_MacroIsMeanOfColumns ==
    \A i \in DOMAIN TheSpecs : \A h \in DOMAIN History(i) :
        LET b == TheSpecs[i].inputs[h]
        IN  (/\ MetricScope(TheSpecs[i].metric) = "macro"
             /\ MetricType(TheSpecs[i].metric) = "labels"
             /\ Len(b.column_names) = Shape(b.y_pred)[2]) =>
                /\ History(i)[h].value = MeanOverColumns(MetricName(TheSpecs[i].metric), b)
                /\ ~IsNaN(History(i)[h].value)

\* F1ScoreMacro returned 1/2 on two columns, one of them without any positive cell
C22_Witness ==
    /\ call.op = "compute" /\ call.err = "none"
    /\ Len(TheSpecs) = 1 /\ TheSpecs[1].metric.cls = "F1ScoreMacro"
    /\ Len(History(1)) = 1 /\ History(1)[1].value = <<1, 2>>
    /\ LET b == TheSpecs[1].inputs[1]
       IN  /\ Len(b.column_names) = 2
           /\ \E c \in 1..2 : Fraction("f1_score", b, CellsOf(b, {c}))[2] = 0

(***************************************************************************)
(* The direct calls of Metric.compute: what was passed, what came back.    *)
(***************************************************************************)
Computes(classes) ==
    call.op = "Metric.compute" /\ call.err = "none" /\ call.args[1].cls \in classes

\* the target column of an array of the call, as a sequence
TargetColumn(array) == [r \in 1..Len(array.data) |-> array.data[r][2]]

NSamples == Len(call.args[2].y_true.data)

Cap == call.args[1].metadata_series_length

SquaredErrorAt(r) ==
    (call.args[2].y_true.data[r][2] - call.args[2].y_pred.data[r][2])
        * (call.args[2].y_true.data[r][2] - call.args[2].y_pred.data[r][2])

RECURSIVE SumOfSquaredErrors(_)
SumOfSquaredErrors(n) ==
    IF n = 0 THEN 0 ELSE SquaredErrorAt(n) + SumOfSquaredErrors(n - 1)

\* the three series of the metadata are the rows at the positions given
SeriesTakenAt(metadata, positions) ==
    /\ Len(metadata.y_true) = Len(positions)
    /\ Len(metadata.y_pred) = Len(positions)
    /\ Len(metadata.error) = Len(positions)
    /\ \A k \in DOMAIN positions :
           /\ metadata.y_true[k] = call.args[2].y_true.data[positions[k] + 1][2]
           /\ metadata.y_pred[k] = call.args[2].y_pred.data[positions[k] + 1][2]

FromZeroToLast(positions) ==
    /\ positions[1] = 0
    /\ positions[Len(positions)] = NSamples - 1
    /\ \A k \in 1..(Len(positions) - 1) : positions[k] < positions[k + 1]

\* positions[k + 1] = floor(k * (n - 1) / (c - 1)), said without a division
AtFloorPositions(positions) ==
    \A k \in DOMAIN positions :
        /\ (Cap - 1) * positions[k] <= (k - 1) * (NSamples - 1)
        /\ (k - 1) * (NSamples - 1) < (Cap - 1) * (positions[k] + 1)

\* positions[k + 1] is floor(k * (n - 1) / (c - 1)) or, the double product having
\* rounded below a whole number, one less
AtRoundedPositions(positions) ==
    \A k \in DOMAIN positions :
        /\ (Cap - 1) * positions[k] <= (k - 1) * (NSamples - 1)
        /\ (k - 1) * (NSamples - 1) < (Cap - 1) * (positions[k] + 2)

ValueFromAllSamples(value) ==
    value[2] # 0 /\ value[1] * NSamples = value[2] * SumOfSquaredErrors(NSamples)

WholeColumn(metadata) ==
    /\ metadata.indices = None
    /\ SeriesTakenAt(metadata, [r \in 1..NSamples |-> r - 1])

(***************************************************************************)
(* C23 as stated: MSETarget.compute on n samples with the cap c keeps the  *)
(* whole target column and no indices when n <= c; when n > c the three    *)
(* series have c elements each, taken at the positions                     *)
(* floor(k*(n-1)/(c-1)), k = 0..c-1, which start at 0, end at n-1,         *)
(* increase strictly and are stored as indices; the value is computed from *)
(* all n samples.                                                          *)
(***************************************************************************)
C23_SampledAtFloorPositions ==
    (call.op = "Metric.compute" /\ call.args[1].cls = "MSETarget") =>
        /\ call.err = "none"
        /\ ValueFromAllSamples(call.ret.value)
        /\ NSamples <= Cap => WholeColumn(call.ret.metadata)
        /\ NSamples > Cap =>
               /\ ~ call.ret.metadata.indices.is_none
               /\ Len(call.ret.metadata.indices.array) = Cap
               /\ SeriesTakenAt(call.ret.metadata, call.ret.metadata.indices.array)
               /\ Cap >= 1 => FromZeroToLast(call.ret.metadata.indices.array)
               /\ AtFloorPositions(call.ret.metadata.indices.array)

(***************************************************************************)
(* C23, corrected: as above for a cap of at least 2, the positions being   *)
(* the floored samples of np.linspace, each floor(k*(n-1)/(c-1)) or one    *)
(* less; a cap of 1 keeps the first sample alone and a cap of 0 keeps      *)
(* nothing.                                                                *)
(***************************************************************************)
C23_SampledAtLinspacePositions ==
    (call.op = "Metric.compute" /\ call.args[1].cls = "MSETarget") =>
        /\ call.err = "none"
        /\ ValueFromAllSamples(call.ret.value)
        /\ NSamples <= Cap => WholeColumn(call.ret.metadata)
        /\ NSamples > Cap =>
               /\ ~ call.ret.metadata.indices.is_none
               /\ Len(call.ret.metadata.indices.array) = Cap
               /\ SeriesTakenAt(call.ret.metadata, call.ret.metadata.indices.array)
               /\ Cap >= 2 => /\ FromZeroToLast(call.ret.metadata.indices.array)
                              /\ AtRoundedPositions(call.ret.metadata.indices.array)
               /\ Cap = 1 => call.ret.metadata.indices.array = <<0>>

\* 31 samples under a cap of 23: the twelfth position is 14, where
\* floor(11 * 30 / 22) is 15
C23_Witness ==
    /\ Computes({"MSETarget"})
    /\ NSamples = 31 /\ Cap = 23
    /\ call.ret.metadata.indices.array[12] = 14
    /\ call.ret.metadata.y_true[12] = call.args[2].y_true.data[15][2]
    /\ Len(call.ret.metadata.error) = 23

(***************************************************************************)
(* C24: on the same inputs, target_name and cap, the result of RMSETarget  *)
(* has the metadata y_true, y_pred and indices of the result of MSETarget, *)
(* an error series that is the element-wise square root of the error       *)
(* series of MSETarget, and a value that is the square root of the value   *)
(* of MSETarget.                                                           *)
(***************************************************************************)
\* root, a sum of square roots, is the square root of the rational q
IsRootOf(root, q) ==
    IF q[1] = 0 THEN root = <<>>
    ELSE \E t \in DOMAIN root :
             /\ DOMAIN root = {t}
             /\ root[t][1] > 0 /\ root[t][2] > 0
             /\ root[t][1] * root[t][1] * t * q[2] = q[1] * root[t][2] * root[t][2]

MSEOfTheCall ==
    MSETargetCompute([call.args[1] EXCEPT !.cls = "MSETarget"], call.args[2].y_true,
                     call.args[2].y_pred, call.args[2].column_names)

C24_RMSETargetIsRootOfMSETarget ==
    (call.op = "Metric.compute" /\ call.args[1].cls = "RMSETarget") =>
        /\ call.err = MSEOfTheCall.err
        /\ call.err = "none" =>
               /\ call.ret.metadata.y_true = MSEOfTheCall.metadata.y_true
               /\ call.ret.metadata.y_pred = MSEOfTheCall.metadata.y_pred
               /\ call.ret.metadata.indices = MSEOfTheCall.metadata.indices
               /\ Len(call.ret.metadata.error) = Len(MSEOfTheCall.metadata.error)
               /\ \A i \in DOMAIN MSEOfTheCall.metadata.error :
                      IsRootOf(call.ret.metadata.error[i], MSEOfTheCall.metadata.error[i])
               /\ IsRootOf(call.ret.value, MSEOfTheCall.value)

\* RMSETarget on a sampled series: a value that is no rational, an error of 2 for
\* a squared error of 4
C24_Witness ==
    /\ Computes({"RMSETarget"})
    /\ NSamples > Cap /\ Cap >= 2
    /\ DOMAIN call.ret.value # {1} /\ call.ret.value # <<>>
    /\ \E i \in DOMAIN call.ret.metadata.error :
           /\ call.ret.metadata.error[i] = (1 :> <<2, 1>>)
           /\ MSEOfTheCall.metadata.error[i] = <<4, 1>>

(***************************************************************************)
(* C25 as stated: on every valid regression batch the value of RMSEMacro   *)
(* is the square root of the value of MSEMacro on that batch, for any      *)
(* number of columns.                                                      *)
(***************************************************************************)
C25_RMSEMacroIsRootOfMSEMacro ==
    (call.op = "Metric.compute" /\ call.args[1].cls = "RMSEMacro") =>
        /\ call.err = "none"
        /\ IsRootOf(call.ret.value,
                    MSEMacroCompute(Metric("MSEMacro", NoTarget), call.args[2].y_true,
                                    call.args[2].y_pred, call.args[2].column_names).value)

(***************************************************************************)
(* C30: on two regression arrays of one shape, with at least one row and   *)
(* one column, the value of MSEMacro is the mean squared error over all    *)
(* n_samples x n_columns elements together.                                *)
(***************************************************************************)
AllCells == (1..Len(call.args[2].y_true.data)) \X (1..Len(call.args[2].y_true.data[1]))

SquaredErrorOfCell(x) ==
    (call.args[2].y_true.data[x[1]][x[2]] - call.args[2].y_pred.data[x[1]][x[2]])
        * (call.args[2].y_true.data[x[1]][x[2]] - call.args[2].y_pred.data[x[1]][x[2]])

RECURSIVE SumOfCells(_)
SumOfCells(cells) ==
    IF cells = {} THEN 0
    ELSE LET x == CHOOSE y \in cells : TRUE
         IN  SquaredErrorOfCell(x) + SumOfCells(cells \ {x})

NextEvaluations ==
    \/ evaluators = <<>> /\ \E spec \in SpecPool : BuilderAddMetric(spec)
    \/ Build
    \/ \E e \in DOMAIN evaluators, k \in DOMAIN LabelInputs : AddLabelEvaluation(e, LabelInputs[k])
    \/ \E e \in DOMAIN evaluators, k \in DOMAIN ProbInputs : AddProbEvaluation(e, ProbInputs[k])
    \/ \E e \in DOMAIN evaluators, k \in DOMAIN RegressionInputs :
          AddRegressionEvaluation(e, RegressionInputs[k])

SpecEvaluations == Init /\ [][NextEvaluations]_vars

(***************************************************************************)
(* C26 as stated: after any sequence of add_label_evaluation,              *)
(* add_prob_evaluation and add_regression_evaluation calls on one          *)
(* evaluator, returning or raising, all specs of one kind have histories   *)
(* of one length, the number of calls of that kind that returned normally. *)
(***************************************************************************)
SameKindSameLength ==
    \A e \in DOMAIN evaluators :
        \A i, j \in DOMAIN SpecsOf(e) :
            MetricType(SpecsOf(e)[i].metric) = MetricType(SpecsOf(e)[j].metric)
                => Len(SpecsOf(e)[i].history) = Len(SpecsOf(e)[j].history)

AddOpOf(metric_type) ==
    CASE metric_type = "labels" -> "add_label_evaluation"
      [] metric_type = "probs" -> "add_prob_evaluation"
      [] metric_type = "scores" -> "add_regression_evaluation"

\* a step lengthens a history by one exactly when it is a call of the kind of
\* the spec that returned normally
NormalCallsCounted ==
    \A i \in DOMAIN lists[BUILDER] :
        Len(lists'[BUILDER][i].history) =
            Len(lists[BUILDER][i].history)
                + (IF /\ call'.op = AddOpOf(MetricType(lists[BUILDER][i].metric))
                      /\ call'.err = "none"
                   THEN 1 ELSE 0)

C26_HistoriesCountNormalCalls == []SameKindSameLength /\ [][NormalCallsCounted]_vars

(***************************************************************************)
(* One builder, build() called more than once: every MetricEvaluator is    *)
(* handed the builder's own list.                                          *)
(***************************************************************************)
MaxBuilds == 2

NextBuilds ==
    \/ evaluators = <<>> /\ \E spec \in SpecPool : BuilderAddMetric(spec)
    \/ BuildUpTo(MaxBuilds)
    \/ \E e \in DOMAIN evaluators, k \in DOMAIN LabelInputs : AddLabelEvaluation(e, LabelInputs[k])
    \/ \E e \in DOMAIN evaluators, k \in DOMAIN ProbInputs : AddProbEvaluation(e, ProbInputs[k])
    \/ \E e \in DOMAIN evaluators, k \in DOMAIN RegressionInputs :
          AddRegressionEvaluation(e, RegressionInputs[k])
    \/ \E e \in DOMAIN evaluators : GetResults(e)

SpecBuilds == Init /\ [][NextBuilds]_vars

(***************************************************************************)
(* C27 as stated: evaluators from separate build() calls on one builder    *)
(* have independent state: an add_*_evaluation on one of them leaves the   *)
(* values and steps that get_results reports for the other unchanged, and  *)
(* leaves the other's spec list unchanged.                                 *)
(***************************************************************************)
Configuration(specs) ==
    [i \in DOMAIN specs |-> [metric |-> specs[i].metric, reducers |-> specs[i].reducers]]

OthersUntouched ==
    call'.op \in {"add_label_evaluation", "add_prob_evaluation", "add_regression_evaluation"} =>
        \A f \in DOMAIN evaluators \ {call'.tgt} :
            /\ get_results(lists'[evaluators[f]]).err = get_results(lists[evaluators[f]]).err
            /\ get_results(lists'[evaluators[f]]).values = get_results(lists[evaluators[f]]).values
            /\ get_results(lists'[evaluators[f]]).steps = get_results(lists[evaluators[f]]).steps
            /\ Configuration(lists'[evaluators[f]]) = Configuration(lists[evaluators[f]])

C27_EvaluatorsIndependent == [][OthersUntouched]_vars

(***************************************************************************)
(* A builder given metrics whose target names are integers, strings of     *)
(* digits and the names of the scopes.                                     *)
(***************************************************************************)
IdPool ==
    { Metric("PrecisionTarget", IntName(1)), Metric("PrecisionTarget", StrName("1")),
      Metric("PrecisionTarget", StrName("micro")), Metric("PrecisionTarget", StrName("macro")),
      Metric("PrecisionMicro", NoTarget), Metric("PrecisionMacro", NoTarget),
      SeriesMetric("MSETarget", StrName("1"), DefaultSeriesLength),
      SeriesMetric("RMSETarget", StrName("macro"), DefaultSeriesLength) }

NextIds ==
    \/ \E metric \in IdPool : BuilderAddMetric(NewMetricSpec(metric, <<"LATEST">>))
    \/ Build

SpecIds == Init /\ [][NextIds]_vars

(***************************************************************************)
(* C28 as stated: two metrics have the same id only if they are the same   *)
(* variant with the same target_name, a target-scoped metric never having  *)
(* the id of the micro or macro variant of its name and two different      *)
(* target names never giving one id; so the duplicate check of the         *)
(* evaluator never rejects metrics that all differ.                        *)
(***************************************************************************)
C28_EqualIdsOnlyForEqualMetrics ==
    /\ \A i, j \in DOMAIN TheSpecs :
           MetricId(TheSpecs[i].metric) = MetricId(TheSpecs[j].metric)
               => TheSpecs[i].metric = TheSpecs[j].metric
    /\ (call.op = "build" /\ call.err = "ValueError") =>
           \E i, j \in DOMAIN TheSpecs : i # j /\ TheSpecs[i].metric = TheSpecs[j].metric

(***************************************************************************)
(* C29: get_results raises whenever a spec configured with latest, max,    *)
(* min or minmax has an empty history, also when other specs hold results, *)
(* and returns nothing then; so an evaluator holding label-kind and        *)
(* probability-kind specs with default reducers raises in get_results      *)
(* after add_label_evaluation calls as long as no probability result has   *)
(* been added.                                                             *)
(***************************************************************************)
NeedsAValue(spec) ==
    \E k \in DOMAIN spec.reducers : spec.reducers[k] \in {"LATEST", "MAX", "MIN", "MINMAX"}

C29_GetResultsRaisesOnEmptyHistory ==
    (/\ call.op = "get_results"
     /\ \E i \in DOMAIN SpecsOf(call.tgt) :
            SpecsOf(call.tgt)[i].history = <<>> /\ NeedsAValue(SpecsOf(call.tgt)[i]))
        => /\ call.err \in {"IndexError", "ValueError"}
           /\ call.values = EmptyDict /\ call.steps = EmptyDict /\ call.figures = EmptyDict

\* get_results raised after a successful add_label_evaluation on an evaluator of a
\* label-kind spec holding a result and a probability-kind spec holding none
C29_Witness ==
    /\ call.op = "get_results" /\ call.err = "IndexError"
    /\ \E i, j \in DOMAIN SpecsOf(call.tgt) :
           /\ MetricType(SpecsOf(call.tgt)[i].metric) = "labels"
           /\ SpecsOf(call.tgt)[i].reducers = <<"LATEST">>
           /\ SpecsOf(call.tgt)[i].history # <<>>
           /\ MetricType(SpecsOf(call.tgt)[j].metric) = "probs"
           /\ SpecsOf(call.tgt)[j].reducers = <<"LATEST">>
           /\ SpecsOf(call.tgt)[j].history = <<>>

====
